---------------------------- MODULE Spec2Model ----------------------------
(***************************************************************************)
(* Model of the inventory-update application (src/app/main.py and          *)
(* src/app/database.py): the store registry kept in PostgreSQL, the        *)
(* quantity_threshold setting, the store's Items_tbl, the admin audit      *)
(* table ManualInventoryUpdate, the transaction_log ledger, the admin      *)
(* index of pending quotations, the store's purchase orders and the        *)
(* sessions table.                                                         *)
(*                                                                         *)
(* Numbers: the program converts every quantity with float(); the model    *)
(* keeps the integral floats and represents them as integers.  JSON and    *)
(* SQL values that may be null are tagged records (Null, Num(n), Str(s)).  *)
(* A timestamp is the ordinal of the commit request that produced it.       *)
(***************************************************************************)
EXTENDS Integers, Sequences, FiniteSets, TLC

VARIABLES
    store_connections,      \* PostgreSQL table store_connections: id -> row
    store_id_seq,           \* last value handed out by the id sequence
    admin_db_config,        \* TRUE iff table admin_db_config holds a row
    app_settings,           \* value of key 'quantity_threshold' (text) or NoRow
    Items_tbl,              \* per store database: ProductID -> row
    ManualInventoryUpdate,  \* admin database audit table (sequence of rows)
    transaction_log,        \* PostgreSQL ledger (sequence of rows)
    clock,                  \* number of commit requests served: the time
    attempts,               \* commit requests that passed validation
    request,                \* the last request received (the fields read below)
    resp,                   \* the last response returned to a caller
    io,                     \* the database calls the last handler made, in order
    txn,                    \* open registry transactions (concurrent model)
    seen,                   \* what concurrent registry readers have observed
    QuotationsStatus,       \* admin database: the pending-quotation index
    PurchaseOrders_tbl,     \* primary store database: the purchase orders
    sessions,               \* PostgreSQL table sessions (set of rows)
    hours,                  \* the wall clock, in hours
    workers                 \* commits in progress (concurrent model)

vars == <<store_connections, store_id_seq, admin_db_config, app_settings,
          Items_tbl, ManualInventoryUpdate, transaction_log, clock,
          attempts, request, resp, io, txn, seen,
          QuotationsStatus, PurchaseOrders_tbl, sessions, hours, workers>>

registryVars == <<store_connections, store_id_seq>>
engineVars == <<admin_db_config, app_settings, Items_tbl,
                ManualInventoryUpdate, transaction_log, clock, attempts>>
txnVars == <<txn, seen>>
sourceVars == <<QuotationsStatus, PurchaseOrders_tbl>>

----------------------------------------------------------------------------
(* Bounds of the model *)

\* ids the store_connections sequence may hand out
MaxStores == 2

Nicknames == {"A", "B"}
Databases == {"db1", "db2"}

----------------------------------------------------------------------------
(* Values *)

Null == [t |-> "null"]
Num(n) == [t |-> "num", v |-> n]
Str(s) == [t |-> "str", v |-> s]
\* a text whose characters the program reads: a sequence of characters
Text(cs) == [t |-> "text", v |-> cs]
\* an exception raised by a conversion
Raised(e) == [t |-> "raised", v |-> e]

StoreIds == 1..MaxStores
\* ids a request may name: every id the sequence can hand out and one more
RequestIds == 1..(MaxStores + 1)

\* the requests that may be served at the same time
Workers == {"w1", "w2"}
\* a worker that serves no request: its place in api_update_quantity (pc),
\* the locals of the handler, the quantity the store held just before the
\* worker's own UPDATE (before_write), the quantity that UPDATE set (written)
\* and the status returned (code)
IdleWorker ==
    [pc |-> "idle", new_quantity |-> 0, store |-> [t |-> "null"],
     primary_store |-> [t |-> "null"], product |-> [t |-> "null"],
     current_time |-> 0, before_write |-> [t |-> "null"],
     written |-> [t |-> "null"], code |-> 0]

NoRequest == [op |-> "none"]
NoResp == [op |-> "none", code |-> 0]

\* a call of a PostgresManager or MSSQLManager method by a handler, and
\* whether it returned (ok) or raised
Call(name, ok) == [call |-> name, status |-> "", ok |-> ok]
\* a call of log_transaction with the given status
LogCall(status, ok) == [call |-> "log_transaction", status |-> status, ok |-> ok]

----------------------------------------------------------------------------
(* Store registry: PostgresManager, src/app/database.py *)

EmptyRows == [i \in {} |-> Null]

\* rows with is_primary = TRUE
PrimaryIds(rows) == {i \in DOMAIN rows : rows[i].is_primary}

\* SELECT * FROM store_connections WHERE is_primary = TRUE AND is_active = TRUE
\* LIMIT 1: the set of rows the query may return (empty: None)
get_primary_store(rows) ==
    {i \in DOMAIN rows : rows[i].is_primary /\ rows[i].is_active}

\* UPDATE store_connections SET is_primary = FALSE
unset_primaries(rows) ==
    [i \in DOMAIN rows |-> [rows[i] EXCEPT !.is_primary = FALSE]]

\* mutant: the new primary is set without clearing the others
set_primary_store_rows_noclear(rows, store_id) ==
    [i \in DOMAIN rows |->
        IF i = store_id THEN [rows[i] EXCEPT !.is_primary = TRUE] ELSE rows[i]]

\* set_primary_store: clear every row, then UPDATE ... WHERE id = store_id
set_primary_store_rows(rows, store_id) ==
    LET cleared == unset_primaries(rows)
    IN [i \in DOMAIN rows |->
          IF i = store_id THEN [cleared[i] EXCEPT !.is_primary = TRUE]
                          ELSE cleared[i]]

\* mutant: add_store inserts a primary row without clearing the others
add_store_rows_noclear(rows, new_id, nickname, database, is_primary) ==
    [i \in DOMAIN rows \cup {new_id} |->
        IF i = new_id
        THEN [nickname |-> nickname, database |-> database,
              is_primary |-> is_primary, is_active |-> TRUE]
        ELSE rows[i]]

\* add_store: if is_primary, clear every row; then INSERT (is_active takes
\* the column default, TRUE)
add_store_rows(rows, new_id, nickname, database, is_primary) ==
    LET base == IF is_primary THEN unset_primaries(rows) ELSE rows
    IN [i \in DOMAIN rows \cup {new_id} |->
          IF i = new_id
          THEN [nickname |-> nickname, database |-> database,
                is_primary |-> is_primary, is_active |-> TRUE]
          ELSE base[i]]

\* the optional fields of update_store: Null stands for Python's None;
\* database stands for the connection fields server, database, username
\* and password
Patch(row, nickname, database, is_primary, is_active) ==
    [row EXCEPT
        !.nickname = IF nickname = Null THEN @ ELSE nickname.v,
        !.database = IF database = Null THEN @ ELSE database.v,
        !.is_primary = IF is_primary = Null THEN @ ELSE is_primary.v,
        !.is_active = IF is_active = Null THEN @ ELSE is_active.v]

\* update_store: when is_primary is truthy every row is cleared first; the
\* built UPDATE ... WHERE id = store_id runs when some field was given
update_store_rows(rows, store_id, nickname, database, is_primary, is_active) ==
    LET base == IF is_primary # Null /\ is_primary.v
                THEN unset_primaries(rows) ELSE rows
        any == \/ nickname # Null \/ database # Null
               \/ is_primary # Null \/ is_active # Null
    IN [i \in DOMAIN rows |->
          IF i = store_id /\ any
          THEN Patch(base[i], nickname, database, is_primary, is_active)
          ELSE base[i]]

\* DELETE FROM store_connections WHERE id = store_id
delete_store_rows(rows, store_id) ==
    [i \in DOMAIN rows \ {store_id} |-> rows[i]]

OptBool == {Null, Num(TRUE), Num(FALSE)}
\* the nickname and connection fields an update_store request may carry:
\* neither, a new nickname, or a new connection target
ConnectionPatches ==
    {<<Null, Null>>}
    \cup {<<Str(n), Null>> : n \in Nicknames}
    \cup {<<Null, Str(d)>> : d \in Databases}

(* The registry handlers.  A handler whose transaction raises is rolled    *)
(* back by get_connection and leaves the table as it was; the handlers     *)
(* below are the calls that commit.                                        *)

\* POST /api/config/stores served for one of the given stores
serve_add_store(nicknames, databases) ==
    /\ store_id_seq < MaxStores
    /\ \E nickname \in nicknames, database \in databases,
          is_primary \in BOOLEAN :
         /\ request' = [op |-> "add_store"]
         /\ store_id_seq' = store_id_seq + 1
         /\ store_connections' =
               add_store_rows(store_connections, store_id_seq + 1,
                              nickname, database, is_primary)
         /\ resp' = [op |-> "add_store", code |-> 200]
         /\ io' = <<Call("add_store", TRUE)>>
    /\ UNCHANGED <<sourceVars, sessions, hours, workers, engineVars, txnVars>>

\* POST /api/config/stores
api_add_store == serve_add_store(Nicknames, Databases)

\* PUT /api/config/stores/<id> served for one of the given changes
serve_update_store(patches, primaries, actives) ==
    /\ \E store_id \in RequestIds, patch \in patches,
          is_primary \in primaries, is_active \in actives :
         /\ request' = [op |-> "update_store", store_id |-> store_id]
         /\ store_connections' =
               update_store_rows(store_connections, store_id, patch[1],
                                 patch[2], is_primary, is_active)
         /\ UNCHANGED store_id_seq
         /\ resp' = [op |-> "update_store", code |-> 200]
         /\ io' = <<Call("update_store", TRUE)>>
    /\ UNCHANGED <<sourceVars, sessions, hours, workers, engineVars, txnVars>>

\* PUT /api/config/stores/<id>
api_update_store == serve_update_store(ConnectionPatches, OptBool, OptBool)

\* DELETE /api/config/stores/<id>
api_delete_store ==
    /\ \E store_id \in RequestIds :
         /\ request' = [op |-> "delete_store"]
         /\ store_connections' =
               delete_store_rows(store_connections, store_id)
         /\ UNCHANGED store_id_seq
         /\ resp' = [op |-> "delete_store", code |-> 200]
         /\ io' = <<Call("delete_store", TRUE)>>
    /\ UNCHANGED <<sourceVars, sessions, hours, workers, engineVars, txnVars>>

\* POST /api/config/stores/<id>/set-primary
api_set_primary_store ==
    /\ \E store_id \in RequestIds :
         /\ request' = [op |-> "set_primary_store", store_id |-> store_id]
         /\ store_connections' =
               set_primary_store_rows(store_connections, store_id)
         /\ UNCHANGED store_id_seq
         /\ resp' = [op |-> "set_primary_store", code |-> 200]
         /\ io' = <<Call("set_primary_store", TRUE)>>
    /\ UNCHANGED <<sourceVars, sessions, hours, workers, engineVars, txnVars>>

----------------------------------------------------------------------------
(* Conversions: float(), str(float) and Python's `x or 0` *)

DigitChars == <<"0", "1", "2", "3", "4", "5", "6", "7", "8", "9">>

DigitValue(c) == CHOOSE d \in 0..9 : DigitChars[d + 1] = c

IsDigit(c) == \E d \in 0..9 : DigitChars[d + 1] = c

RECURSIVE NatStr(_)
\* the decimal digits of a natural number
NatStr(n) == IF n < 10 THEN <<DigitChars[n + 1]>>
             ELSE NatStr(n \div 10) \o <<DigitChars[(n % 10) + 1]>>

\* str(x) of an integral float x: "10.0", "-1.0"
FloatStr(n) == IF n < 0 THEN <<"-">> \o NatStr(-n) \o <<".", "0">>
               ELSE NatStr(n) \o <<".", "0">>

RECURSIVE DigitsValue(_, _)
\* the number a sequence of digits denotes, acc being the digits read so far
DigitsValue(cs, acc) ==
    IF cs = <<>> THEN acc
    ELSE DigitsValue(Tail(cs), 10 * acc + DigitValue(Head(cs)))

\* the characters of cs before the first "."
IntPart(cs) ==
    LET dots == {k \in 1..Len(cs) : cs[k] = "."}
    IN IF dots = {} THEN cs
       ELSE SubSeq(cs, 1, (CHOOSE k \in dots : \A j \in dots : k <= j) - 1)

\* the characters of cs after the first "."
FracPart(cs) ==
    LET dots == {k \in 1..Len(cs) : cs[k] = "."}
    IN IF dots = {} THEN <<>>
       ELSE SubSeq(cs, (CHOOSE k \in dots : \A j \in dots : k <= j) + 1, Len(cs))

\* float(text): Num(n) for the decimal text of an integral number,
\* Raised("ValueError") for a text float() rejects
ParseFloat(cs) ==
    LET neg == cs # <<>> /\ Head(cs) = "-"
        body == IF neg THEN Tail(cs) ELSE cs
        ip == IntPart(body)
        fp == FracPart(body)
    IN IF /\ ip # <<>>
          /\ \A k \in 1..Len(ip) : IsDigit(ip[k])
          /\ \A k \in 1..Len(fp) : fp[k] = "0"
       THEN Num(IF neg THEN -DigitsValue(ip, 0) ELSE DigitsValue(ip, 0))
       ELSE Raised("ValueError")

\* float(v) of a JSON value: a number converts, a string is parsed
Float(v) == IF v.t = "num" THEN v
            ELSE IF v.t = "text" THEN ParseFloat(v.v)
            ELSE Raised("TypeError")

\* Python's `v or 0`: None and 0 (and the empty string) give 0
OrZero(v) == IF v = Null \/ v = Num(0) \/ v = Text(<<>>) THEN Num(0) ELSE v

----------------------------------------------------------------------------
(* Reconciliation engine: api_update_quantity and api_check_difference,    *)
(* src/app/main.py                                                         *)

\* commit requests the model serves
MaxCommits == 1
\* the on-hand quantity a product may start with
StockQty == 12
\* thresholds an operator may save: 0..MaxThreshold
MaxThreshold == 1

ProductIds == {1}
Username == "u1"

\* a commit request: the JSON body of POST /api/product/update-quantity
CommitRequest(product_id, new_quantity, quotations_qty, purchase_orders_qty, top_bins_qty) ==
    [op |-> "update_quantity", product_id |-> product_id,
     new_quantity |-> new_quantity, quotations_qty |-> quotations_qty,
     purchase_orders_qty |-> purchase_orders_qty,
     top_bins_qty |-> top_bins_qty]

NotANumber == Text(<<"a", "b", "c">>)

\* the requests the model sends: every combination of a count with present
\* or omitted adjustments for the stocked product 1, explicit zeros, the
\* unknown product 2, and one request for each validation failure
CommitRequests ==
    {CommitRequest(Num(1), u, q, po, t) :
        u \in {Num(0), Num(4)}, q \in {Null, Num(1)},
        po \in {Null, Num(8)}, t \in {Null, Num(2)}}
    \cup {CommitRequest(Num(1), Num(4), Num(0), Num(0), Num(0)),
          CommitRequest(Num(2), Num(4), Null, Null, Null),
          CommitRequest(Num(2), Num(4), Num(1), Num(8), Null),
          CommitRequest(Null, Num(4), Null, Null, Null),
          CommitRequest(Num(1), Null, Num(1), Null, Null),
          CommitRequest(Num(1), NotANumber, Null, Null, Null),
          CommitRequest(Num(1), Num(4), NotANumber, Null, Null),
          CommitRequest(Num(1), Num(4), Null, Null, NotANumber)}

\* where a connector call of the commit raises, and whether the write of
\* the 'failed' ledger row raises as well
CommitFaults ==
    {[at |-> "none", again |-> FALSE], [at |-> "registry", again |-> FALSE]}
    \cup [at : {"get_product", "update", "record", "log"}, again : BOOLEAN]

\* the result of get_primary_store(): a store id, or Null for None
PrimaryResult(rows) ==
    IF get_primary_store(rows) = {} THEN {Null}
    ELSE {Num(i) : i \in get_primary_store(rows)}

\* mutant: the purchase-order quantity is added to the committed total
FinalQtyWithPO(user_entered_qty, quotations_qty, purchase_orders_qty, top_bins_qty) ==
    user_entered_qty + quotations_qty + purchase_orders_qty + top_bins_qty

\* main.py:259 final_qty
FinalQty(user_entered_qty, quotations_qty, purchase_orders_qty, top_bins_qty) ==
    user_entered_qty + quotations_qty + top_bins_qty

\* main.py:276 product['QuantOnHand'] or 0
OldQuantity(product) == OrZero(product.QuantOnHand).v

\* mutant: the difference is taken the other way round
DifferenceReversed(final_qty, old_quantity) == old_quantity - final_qty

\* main.py:277 difference
Difference(final_qty, old_quantity) == final_qty - old_quantity

\* MSSQLManager.update_product_quantity
update_product_quantity(items, db, product_id, new_quantity, last_count_date) ==
    [items EXCEPT ![db] =
        [p \in DOMAIN items[db] |->
            IF p = product_id
            THEN [items[db][p] EXCEPT !.QuantOnHand = Num(new_quantity),
                                      !.LastCountDate = Num(last_count_date)]
            ELSE items[db][p]]]

\* MSSQLManager.record_inventory_update: the row inserted
AuditRow(product, old_qty, new_qty, diff_qty, date_created) ==
    [DateCreated |-> date_created, Username |-> Username,
     UpdateType |-> "Inventory", ProductUPC |-> product.ProductUPC,
     OldQty |-> old_qty, NewQty |-> new_qty, DiffQty |-> diff_qty]

\* the nickname logged: primary_store['nickname'] if primary_store else 'unknown'
LoggedNickname(rows, primary_store) ==
    IF primary_store = Null THEN "unknown" ELSE rows[primary_store.v].nickname

\* PostgresManager.log_transaction on the success path (main.py:301-316)
SuccessRow(nickname, product_id, product, old_quantity, final_qty, difference, u, q, po, t, now) ==
    [username |-> Username, store_nickname |-> nickname,
     product_id |-> product_id, product_upc |-> Str(product.ProductUPC),
     old_quantity |-> Num(old_quantity), new_quantity |-> final_qty,
     difference |-> Num(difference), status |-> "success",
     error_message |-> Null, user_entered_qty |-> u, quotations_qty |-> q,
     purchase_orders_qty |-> po, top_bins_qty |-> t, created_at |-> now]

\* mutant: the failed row reports an old quantity of 0 and a difference
FailedRowZeroOld(nickname, product_id, final_qty, message, u, q, po, t, now) ==
    [username |-> Username, store_nickname |-> nickname,
     product_id |-> product_id, product_upc |-> Str(""),
     old_quantity |-> Num(0), new_quantity |-> final_qty,
     difference |-> Num(final_qty), status |-> "failed",
     error_message |-> Str(message), user_entered_qty |-> u,
     quotations_qty |-> q, purchase_orders_qty |-> po, top_bins_qty |-> t,
     created_at |-> now]

\* PostgresManager.log_transaction on the failure path (main.py:332-348)
FailedRow(nickname, product_id, final_qty, message, u, q, po, t, now) ==
    [username |-> Username, store_nickname |-> nickname,
     product_id |-> product_id, product_upc |-> Str(""),
     old_quantity |-> Null, new_quantity |-> final_qty,
     difference |-> Null, status |-> "failed",
     error_message |-> Str(message), user_entered_qty |-> u,
     quotations_qty |-> q, purchase_orders_qty |-> po, top_bins_qty |-> t,
     created_at |-> now]

\* mutant: the failed row is written twice
FailedTwice(items, audit, log, row, message, again, calls) ==
    [items |-> items, audit |-> audit,
     log |-> IF again THEN log ELSE Append(Append(log, row), row),
     resp |-> [op |-> "update_quantity", code |-> 500,
               error |-> message, new_quantity |-> row.new_quantity],
     io |-> calls \o <<LogCall("failed", ~again), LogCall("failed", ~again)>>]

\* mutant: the call that raised is tried once more before the failure is
\* logged
FailedRetries(items, audit, log, row, message, again, calls) ==
    [items |-> items, audit |-> audit,
     log |-> IF again THEN log ELSE Append(log, row),
     resp |-> [op |-> "update_quantity", code |-> 500,
               error |-> message, new_quantity |-> row.new_quantity],
     io |-> calls \o <<calls[Len(calls)], LogCall("failed", ~again)>>]

\* mutant: the store write is undone when a later step fails
FailedRollsBack(items, audit, log, row, message, again, calls) ==
    [items |-> Items_tbl, audit |-> audit,
     log |-> IF again THEN log ELSE Append(log, row),
     resp |-> [op |-> "update_quantity", code |-> 500,
               error |-> message, new_quantity |-> row.new_quantity],
     io |-> Append(calls, LogCall("failed", ~again))]

\* mutant: when the failure log raises too, its error is the one reported
FailedReportsLogError(items, audit, log, row, message, again, calls) ==
    [items |-> items, audit |-> audit,
     log |-> IF again THEN log ELSE Append(log, row),
     resp |-> [op |-> "update_quantity", code |-> 500,
               error |-> IF again THEN "log_transaction" ELSE message,
               new_quantity |-> row.new_quantity],
     io |-> Append(calls, LogCall("failed", ~again))]

\* mutant: the except branch rewrites the newest ledger row instead of
\* inserting one
FailedOverwrites(items, audit, log, row, message, again, calls) ==
    [items |-> items, audit |-> audit,
     log |-> IF again THEN log
             ELSE IF log = <<>> THEN <<row>>
             ELSE [log EXCEPT ![Len(log)] = row],
     resp |-> [op |-> "update_quantity", code |-> 500,
               error |-> message, new_quantity |-> row.new_quantity],
     io |-> Append(calls, LogCall("failed", ~again))]

\* the except branch of api_update_quantity (main.py:329-351): the 'failed'
\* row is written unless that write raises too, and the caller gets a 500
Failed(items, audit, log, row, message, again, calls) ==
    [items |-> items, audit |-> audit,
     log |-> IF again THEN log ELSE Append(log, row),
     resp |-> [op |-> "update_quantity", code |-> 500,
               error |-> message, new_quantity |-> row.new_quantity],
     io |-> Append(calls, LogCall("failed", ~again))]

\* mutant: the audit row is recorded before the rejection is returned
RejectedRecorded(code, error, calls) ==
    [items |-> Items_tbl,
     audit |-> IF code \in {404, 503}
               THEN Append(ManualInventoryUpdate,
                           [DateCreated |-> clock + 1, Username |-> Username,
                            UpdateType |-> "Inventory", ProductUPC |-> "",
                            OldQty |-> 0, NewQty |-> 0, DiffQty |-> 0])
               ELSE ManualInventoryUpdate,
     log |-> transaction_log,
     resp |-> [op |-> "update_quantity", code |-> code, error |-> error],
     io |-> calls]

\* a return of api_update_quantity that writes nothing, after the calls made
Rejected(code, error, calls) ==
    [items |-> Items_tbl, audit |-> ManualInventoryUpdate,
     log |-> transaction_log,
     resp |-> [op |-> "update_quantity", code |-> code, error |-> error],
     io |-> calls]

\* main.py:261-263: get_primary_store_db, get_admin_db and get_primary_store
ConfigReads ==
    <<Call("get_primary_store", TRUE), Call("get_admin_db_config", TRUE),
      Call("get_primary_store", TRUE)>>

\* the try block of api_update_quantity (main.py:270-328) for a valid
\* request, store_db and admin_db being configured
Commit(db, nickname, product_id, u, q, po, t, fault, now) ==
    LET final_qty == FinalQty(u, q, po, t)
        failed == FailedRow(nickname, product_id, final_qty, fault.at,
                            u, q, po, t, now)
        read == Append(ConfigReads, Call("get_product_by_id", TRUE))
        updated == Append(read, Call("update_product_quantity", TRUE))
        recorded == Append(updated, Call("record_inventory_update", TRUE))
    IN IF fault.at = "get_product"
       THEN Failed(Items_tbl, ManualInventoryUpdate, transaction_log,
                   failed, fault.at, fault.again,
                   Append(ConfigReads, Call("get_product_by_id", FALSE)))
       ELSE IF product_id \notin DOMAIN Items_tbl[db]
       THEN Rejected(404, "Product not found", read)
       ELSE
       LET product == Items_tbl[db][product_id]
           old_quantity == OldQuantity(product)
           difference == Difference(final_qty, old_quantity)
           items1 == update_product_quantity(Items_tbl, db, product_id,
                                             final_qty, now)
           audit1 == Append(ManualInventoryUpdate,
                            AuditRow(product, old_quantity, final_qty,
                                     difference, now))
           log1 == Append(transaction_log,
                          SuccessRow(nickname, product_id, product,
                                     old_quantity, final_qty, difference,
                                     u, q, po, t, now))
       IN IF fault.at = "update"
          THEN Failed(Items_tbl, ManualInventoryUpdate, transaction_log,
                      failed, fault.at, fault.again,
                      Append(read, Call("update_product_quantity", FALSE)))
          ELSE IF fault.at = "record"
          THEN Failed(items1, ManualInventoryUpdate, transaction_log,
                      failed, fault.at, fault.again,
                      Append(updated, Call("record_inventory_update", FALSE)))
          ELSE IF fault.at = "log"
          THEN Failed(items1, audit1, transaction_log,
                      failed, fault.at, fault.again,
                      Append(recorded, LogCall("success", FALSE)))
          ELSE [items |-> items1, audit |-> audit1, log |-> log1,
                resp |-> [op |-> "update_quantity", code |-> 200,
                          product_id |-> product_id,
                          old_quantity |-> old_quantity,
                          new_quantity |-> final_qty,
                          user_entered_qty |-> u, quotations_qty |-> q,
                          purchase_orders_qty |-> po, top_bins_qty |-> t,
                          difference |-> difference],
                io |-> Append(recorded, LogCall("success", TRUE))]

\* whether the request passes the checks of main.py:245-256
ValidRequest(product_id, new_quantity, quotations_qty, purchase_orders_qty, top_bins_qty) ==
    /\ product_id # Null
    /\ new_quantity # Null
    /\ Float(new_quantity).t = "num"
    /\ Float(OrZero(quotations_qty)).t = "num"
    /\ Float(OrZero(purchase_orders_qty)).t = "num"
    /\ Float(OrZero(top_bins_qty)).t = "num"

\* api_update_quantity as a function of the request, of the faults and of
\* the two results of get_primary_store (main.py:261 and main.py:263)
update_quantity(product_id, new_quantity, quotations_qty, purchase_orders_qty, top_bins_qty, fault, store, primary_store, now) ==
    IF product_id = Null
    THEN Rejected(400, "Product ID is required", <<>>)
    ELSE IF new_quantity = Null
    THEN Rejected(400, "New quantity is required", <<>>)
    ELSE IF ~ValidRequest(product_id, new_quantity, quotations_qty,
                          purchase_orders_qty, top_bins_qty)
    THEN Rejected(400, "Invalid quantity value", <<>>)
    ELSE IF fault.at = "registry"
    THEN Rejected(500, "Internal Server Error",
                  <<Call("get_primary_store", FALSE)>>)
    ELSE IF store = Null
    THEN Rejected(503, "Primary store not configured", ConfigReads)
    ELSE IF ~admin_db_config
    THEN Rejected(503, "Admin database not configured", ConfigReads)
    ELSE Commit(store_connections[store.v].database,
                LoggedNickname(store_connections, primary_store),
                product_id.v,
                Float(new_quantity).v,
                Float(OrZero(quotations_qty)).v,
                Float(OrZero(purchase_orders_qty)).v,
                Float(OrZero(top_bins_qty)).v,
                fault, now)

\* POST /api/product/update-quantity served for one of the given requests
\* under one of the given faults, while fewer than limit requests were served
serve_update_quantity(limit, requests, faults) ==
    /\ clock < limit
    /\ clock' = clock + 1
    /\ \E data \in requests, fault \in faults,
          store \in PrimaryResult(store_connections),
          primary_store \in PrimaryResult(store_connections) :
         \E out \in {update_quantity(data.product_id, data.new_quantity,
                                     data.quotations_qty,
                                     data.purchase_orders_qty,
                                     data.top_bins_qty, fault, store,
                                     primary_store, clock + 1)} :
            /\ request' = data
            /\ Items_tbl' = out.items
            /\ ManualInventoryUpdate' = out.audit
            /\ transaction_log' = out.log
            /\ resp' = out.resp
            /\ io' = out.io
            /\ attempts' =
                  IF ValidRequest(data.product_id, data.new_quantity,
                                  data.quotations_qty,
                                  data.purchase_orders_qty, data.top_bins_qty)
                  THEN attempts + 1 ELSE attempts
    /\ UNCHANGED <<sourceVars, sessions, hours, workers, registryVars, admin_db_config,
                   app_settings, txnVars>>

\* POST /api/product/update-quantity
api_update_quantity ==
    serve_update_quantity(MaxCommits, CommitRequests, CommitFaults)

\* POST /api/config/admin-db
api_save_admin_db_config ==
    /\ admin_db_config' = TRUE
    /\ request' = [op |-> "save_admin_db_config"]
    /\ resp' = [op |-> "save_admin_db_config", code |-> 200]
    /\ io' = <<Call("save_admin_db_config", TRUE)>>
    /\ UNCHANGED <<sourceVars, sessions, hours, workers, registryVars, app_settings, Items_tbl,
                   ManualInventoryUpdate, transaction_log, clock, attempts,
                   txnVars>>

----------------------------------------------------------------------------
(* Threshold setting and pre-flight check, src/app/main.py *)

\* main.py:749 the threshold used when app_settings holds no row
DefaultThreshold == 10

Abs(x) == IF x < 0 THEN -x ELSE x

\* PostgresManager.save_setting: the value is stored as str(value)
save_setting(value) == Text(FloatStr(value))

\* main.py:749 float(setting['value']) if setting else 10
Threshold(setting) ==
    IF setting = Null THEN Num(DefaultThreshold) ELSE ParseFloat(setting.v)

\* mutant: a difference equal to the threshold counts as exceeding
ExceedsOrEquals(difference, threshold) == Abs(difference) >= threshold

\* main.py:752 abs(difference) > threshold
Exceeds(difference, threshold) == Abs(difference) > threshold

\* a check request: the JSON body of POST /api/product/check-difference
CheckRequest(product_id, new_quantity, quotations_qty, top_bins_qty) ==
    [op |-> "check_difference", product_id |-> product_id,
     new_quantity |-> new_quantity, quotations_qty |-> quotations_qty,
     top_bins_qty |-> top_bins_qty]

\* the requests the model sends: as for the commit
CheckRequests ==
    {CheckRequest(Num(1), u, q, t) :
        u \in {Num(0), Num(4)}, q \in {Null, Num(1)}, t \in {Null, Num(2)}}
    \cup {CheckRequest(Num(1), Num(4), Num(0), Num(0)),
          CheckRequest(Num(2), Num(4), Null, Null),
          CheckRequest(Null, Num(4), Null, Null),
          CheckRequest(Num(1), Null, Num(1), Null),
          CheckRequest(Num(1), NotANumber, Null, Null),
          CheckRequest(Num(1), Num(4), Null, NotANumber)}

\* the connector call of the check that raises
CheckFaults == {"none", "registry", "get_product", "get_setting"}

CheckRejected(code, error) ==
    [op |-> "check_difference", code |-> code, error |-> error]

\* api_check_difference as a function of the request, of the fault and of
\* the result of get_primary_store: the response
check_difference(product_id, new_quantity, quotations_qty, top_bins_qty, fault, store) ==
    IF product_id = Null THEN CheckRejected(400, "Product ID is required")
    ELSE IF new_quantity = Null
    THEN CheckRejected(400, "New quantity is required")
    ELSE IF ~ValidRequest(product_id, new_quantity, quotations_qty, Null,
                          top_bins_qty)
    THEN CheckRejected(400, "Invalid quantity value")
    ELSE IF fault = "registry"
    THEN CheckRejected(500, "Internal Server Error")
    ELSE IF store = Null
    THEN CheckRejected(503, "Primary store not configured")
    ELSE IF fault = "get_product" THEN CheckRejected(500, fault)
    ELSE IF product_id.v \notin DOMAIN Items_tbl[store_connections[store.v].database]
    THEN CheckRejected(404, "Product not found")
    ELSE IF fault = "get_setting" THEN CheckRejected(500, fault)
    ELSE IF Threshold(app_settings).t # "num"
    THEN CheckRejected(500, "ValueError")
    ELSE
    LET product == Items_tbl[store_connections[store.v].database][product_id.v]
        final_qty == FinalQty(Float(new_quantity).v,
                              Float(OrZero(quotations_qty)).v, 0,
                              Float(OrZero(top_bins_qty)).v)
        old_quantity == OldQuantity(product)
        difference == Difference(final_qty, old_quantity)
        threshold == Threshold(app_settings).v
    IN [op |-> "check_difference", code |-> 200,
        old_quantity |-> old_quantity, final_qty |-> final_qty,
        difference |-> difference, threshold |-> threshold,
        exceeds_threshold |-> Exceeds(difference, threshold)]

\* mutant: the check looks the primary store up before it validates
check_difference_calls_first(product_id, new_quantity, quotations_qty, top_bins_qty, fault, store) ==
    IF fault = "registry" THEN <<Call("get_primary_store", FALSE)>>
    ELSE <<Call("get_primary_store", TRUE)>>

\* the database calls api_check_difference makes, in order, for the same
\* request, fault and result of get_primary_store
check_difference_calls(product_id, new_quantity, quotations_qty, top_bins_qty, fault, store) ==
    IF ~ValidRequest(product_id, new_quantity, quotations_qty, Null,
                     top_bins_qty)
    THEN <<>>
    ELSE IF fault = "registry" THEN <<Call("get_primary_store", FALSE)>>
    ELSE IF store = Null THEN <<Call("get_primary_store", TRUE)>>
    ELSE IF fault = "get_product"
    THEN <<Call("get_primary_store", TRUE), Call("get_product_by_id", FALSE)>>
    ELSE IF product_id.v \notin DOMAIN Items_tbl[store_connections[store.v].database]
    THEN <<Call("get_primary_store", TRUE), Call("get_product_by_id", TRUE)>>
    ELSE <<Call("get_primary_store", TRUE), Call("get_product_by_id", TRUE),
           Call("get_setting", fault # "get_setting")>>

\* mutant: the check stamps the count date of the products it reads
check_difference_stamps ==
    /\ Items_tbl' =
          [db \in Databases |->
              [p \in ProductIds |->
                  [Items_tbl[db][p] EXCEPT !.LastCountDate = Num(clock + 1)]]]
    /\ UNCHANGED <<sourceVars, sessions, hours, workers, registryVars, admin_db_config, app_settings,
                   ManualInventoryUpdate, transaction_log, clock, attempts,
                   txnVars>>

\* what api_check_difference writes (main.py:711-762): no statement of the
\* handler inserts, updates or deletes
check_difference_writes ==
    UNCHANGED <<sourceVars, sessions, hours, workers, registryVars, engineVars, txnVars>>

\* POST /api/product/check-difference served for one of the given requests
\* under one of the given faults
serve_check_difference(requests, faults) ==
    /\ \E data \in requests, fault \in faults,
          store \in PrimaryResult(store_connections) :
         /\ request' = data
         /\ resp' = check_difference(data.product_id, data.new_quantity,
                                     data.quotations_qty, data.top_bins_qty,
                                     fault, store)
         /\ io' = check_difference_calls(data.product_id, data.new_quantity,
                                         data.quotations_qty,
                                         data.top_bins_qty, fault, store)
    /\ check_difference_writes

\* POST /api/product/check-difference
api_check_difference == serve_check_difference(CheckRequests, CheckFaults)

\* the threshold values a request may carry
ReqThresholds ==
    {Null, NotANumber, Num(-1)} \cup {Num(n) : n \in 0..MaxThreshold}

\* POST /api/config/settings/quantity-threshold served for one of the given
\* values
serve_save_quantity_threshold(thresholds) ==
    /\ \E threshold \in thresholds, fail \in BOOLEAN :
         /\ request' = [op |-> "save_quantity_threshold",
                         threshold |-> threshold]
         /\ IF threshold = Null \/ Float(threshold).t # "num"
               \/ Float(threshold).v < 0
            THEN /\ resp' = [op |-> "save_quantity_threshold", code |-> 400]
                 /\ io' = <<>>
                 /\ UNCHANGED app_settings
            ELSE IF fail
            THEN /\ resp' = [op |-> "save_quantity_threshold", code |-> 500]
                 /\ io' = <<Call("save_setting", FALSE)>>
                 /\ UNCHANGED app_settings
            ELSE /\ resp' = [op |-> "save_quantity_threshold", code |-> 200,
                             threshold |-> Float(threshold).v]
                 /\ io' = <<Call("save_setting", TRUE)>>
                 /\ app_settings' = save_setting(Float(threshold).v)
    /\ UNCHANGED <<sourceVars, sessions, hours, workers, registryVars, admin_db_config, Items_tbl,
                   ManualInventoryUpdate, transaction_log, clock, attempts,
                   txnVars>>

\* POST /api/config/settings/quantity-threshold
api_save_quantity_threshold == serve_save_quantity_threshold(ReqThresholds)

----------------------------------------------------------------------------
(* Registry transactions, src/app/database.py: each PostgresManager method *)
(* runs its statements on a connection of its own, committed when the      *)
(* block ends and rolled back when it raises (get_connection).  psycopg2   *)
(* connections run at the server's default isolation, READ COMMITTED: a    *)
(* statement sees the rows committed when it starts and the writes of its  *)
(* own transaction, an UPDATE waits for the rows it targets that another   *)
(* open transaction has written and then updates their committed version.  *)

\* the connections the model opens; get_connection opens one per call and
\* closes it when the block is left, so each carries one transaction
Sessions == {"s1", "s2"}

\* a statement: UPDATE ... SET fields [WHERE id = store_id], or INSERT
Stmt(kind, store_id, nickname, database, is_primary, is_active) ==
    [kind |-> kind, store_id |-> store_id, nickname |-> nickname,
     database |-> database, is_primary |-> is_primary,
     is_active |-> is_active]

\* UPDATE store_connections SET is_primary = FALSE
UnsetPrimaries == Stmt("update_all", 0, Null, Null, Num(FALSE), Null)

\* add_store: the statements of the block
add_store_stmts(nickname, database, is_primary) ==
    (IF is_primary THEN <<UnsetPrimaries>> ELSE <<>>)
    \o <<Stmt("insert", 0, Str(nickname), Str(database), Num(is_primary),
              Null)>>

\* update_store: the statements of the block
update_store_stmts(store_id, nickname, database, is_primary, is_active) ==
    (IF is_primary # Null /\ is_primary.v THEN <<UnsetPrimaries>> ELSE <<>>)
    \o (IF \/ nickname # Null \/ database # Null
           \/ is_primary # Null \/ is_active # Null
        THEN <<Stmt("update", store_id, nickname, database, is_primary,
                    is_active)>>
        ELSE <<>>)

\* set_primary_store: the statements of the block
set_primary_store_stmts(store_id) ==
    <<UnsetPrimaries,
      Stmt("update", store_id, Null, Null, Num(TRUE), Null)>>

\* a connection not yet opened
Idle ==
    [op |-> "none", stmts |-> <<>>, running |-> FALSE, targets |-> {},
     upd |-> EmptyRows, ins |-> EmptyRows]

\* a transaction that has executed nothing yet
Opened(op, stmts) == [Idle EXCEPT !.op = op, !.stmts = stmts]

\* get_connection: conn.close()
Closed == [Idle EXCEPT !.op = "closed"]

\* with self.get_connection() in add_store
begin_add_store ==
    /\ \E s \in Sessions, nickname \in Nicknames, database \in {"db2"},
          is_primary \in BOOLEAN :
         /\ txn[s].op = "none"
         /\ txn' = [txn EXCEPT ![s] =
                       Opened("add_store",
                              add_store_stmts(nickname, database,
                                              is_primary))]
    /\ UNCHANGED <<sourceVars, sessions, hours, workers, registryVars, engineVars, seen, request, resp, io>>

\* with self.get_connection() in update_store
begin_update_store ==
    /\ \E s \in Sessions, store_id \in RequestIds,
          is_primary \in {Null, Num(TRUE)}, is_active \in {Null, Num(FALSE)} :
         /\ txn[s].op = "none"
         /\ txn' = [txn EXCEPT ![s] =
                       Opened("update_store",
                              update_store_stmts(store_id, Null, Null,
                                                 is_primary, is_active))]
    /\ UNCHANGED <<sourceVars, sessions, hours, workers, registryVars, engineVars, seen, request, resp, io>>

\* with self.get_connection() in set_primary_store
begin_set_primary_store ==
    /\ \E s \in Sessions, store_id \in RequestIds :
         /\ txn[s].op = "none"
         /\ txn' = [txn EXCEPT ![s] =
                       Opened("set_primary_store",
                              set_primary_store_stmts(store_id))]
    /\ UNCHANGED <<sourceVars, sessions, hours, workers, registryVars, engineVars, seen, request, resp, io>>

\* the rows a statement of transaction t targets: of the rows committed
\* when it starts and of the rows t inserted, those its WHERE selects
Targets(rows, t, stmt) ==
    {i \in DOMAIN rows \cup DOMAIN t.ins :
        stmt.kind = "update_all" \/ i = stmt.store_id}

\* cur.execute of an UPDATE: the statement takes its snapshot
execute_update_start ==
    /\ \E s \in Sessions :
         /\ txn[s].stmts # <<>>
         /\ ~txn[s].running
         /\ Head(txn[s].stmts).kind # "insert"
         /\ txn' = [txn EXCEPT
                       ![s].running = TRUE,
                       ![s].targets =
                           Targets(store_connections, txn[s],
                                   Head(txn[s].stmts))]
    /\ UNCHANGED <<sourceVars, sessions, hours, workers, registryVars, engineVars, seen, request, resp, io>>

\* the rows other open transactions have written and not yet committed
LockedByOthers(s) ==
    UNION {DOMAIN txn[o].upd : o \in Sessions \ {s}}

\* the version of row i an UPDATE of transaction t writes over: its own
\* write if it has one, else the committed row
Current(rows, t, i) == IF i \in DOMAIN t.upd THEN t.upd[i] ELSE rows[i]

\* cur.execute of an UPDATE returns: no targeted row is held by another
\* transaction; the targeted rows that still exist are written
execute_update_finish ==
    /\ \E s \in Sessions :
         LET t == txn[s]
             stmt == Head(t.stmts)
             own == t.targets \cap DOMAIN t.ins
             old == (t.targets \cap DOMAIN store_connections) \ own
         IN /\ t.running
            /\ t.targets \cap LockedByOthers(s) = {}
            /\ txn' = [txn EXCEPT ![s] =
                  [t EXCEPT
                     !.running = FALSE,
                     !.targets = {},
                     !.stmts = Tail(t.stmts),
                     !.ins = [i \in DOMAIN t.ins |->
                                 IF i \in own
                                 THEN Patch(t.ins[i], stmt.nickname,
                                            stmt.database, stmt.is_primary,
                                            stmt.is_active)
                                 ELSE t.ins[i]],
                     !.upd = [i \in DOMAIN t.upd \cup old |->
                                 IF i \in old
                                 THEN Patch(Current(store_connections, t, i),
                                            stmt.nickname, stmt.database,
                                            stmt.is_primary, stmt.is_active)
                                 ELSE t.upd[i]]]]
    /\ UNCHANGED <<sourceVars, sessions, hours, workers, registryVars, engineVars, seen, request, resp, io>>

\* cur.execute of the INSERT: the id comes from the sequence, which is not
\* transactional; is_active takes the column default
execute_insert ==
    /\ store_id_seq < MaxStores
    /\ \E s \in Sessions :
         LET t == txn[s]
             stmt == Head(t.stmts)
             new_id == store_id_seq + 1
         IN /\ t.stmts # <<>>
            /\ stmt.kind = "insert"
            /\ txn' = [txn EXCEPT ![s] =
                  [t EXCEPT
                     !.stmts = Tail(t.stmts),
                     !.ins = [i \in DOMAIN t.ins \cup {new_id} |->
                                 IF i = new_id
                                 THEN [nickname |-> stmt.nickname.v,
                                       database |-> stmt.database.v,
                                       is_primary |-> stmt.is_primary.v,
                                       is_active |-> TRUE]
                                 ELSE t.ins[i]]]]
    /\ store_id_seq' = store_id_seq + 1
    /\ UNCHANGED <<sourceVars, sessions, hours, workers, store_connections, engineVars, seen, request, resp, io>>

\* the table after transaction t commits
Committed(rows, t) ==
    [i \in DOMAIN rows \cup DOMAIN t.ins |->
        IF i \in DOMAIN t.ins THEN t.ins[i]
        ELSE IF i \in DOMAIN t.upd THEN t.upd[i]
        ELSE rows[i]]

\* get_connection: conn.commit() when the block ends
commit ==
    /\ \E s \in Sessions :
         /\ txn[s].op \notin {"none", "closed"}
         /\ txn[s].stmts = <<>>
         /\ store_connections' = Committed(store_connections, txn[s])
         /\ txn' = [txn EXCEPT ![s] = Closed]
    /\ UNCHANGED <<sourceVars, sessions, hours, workers, store_id_seq, engineVars, seen, request, resp, io>>

\* get_connection: conn.rollback() when a statement raises
rollback ==
    /\ \E s \in Sessions :
         /\ txn[s].stmts # <<>>
         /\ txn' = [txn EXCEPT ![s] = Closed]
    /\ UNCHANGED <<sourceVars, sessions, hours, workers, registryVars, engineVars, seen, request, resp, io>>

\* a reader: get_primary_store returns one of the committed active primary
\* rows, or None
read_primary_store ==
    /\ \E found \in IF get_primary_store(store_connections) = {}
                      THEN {{}}
                      ELSE {{i} : i \in get_primary_store(store_connections)} :
         seen' = [op |-> "get_primary_store", primaries |-> found]
    /\ UNCHANGED <<sourceVars, sessions, hours, workers, registryVars, engineVars, txn, request, resp, io>>

\* a reader: get_all_stores returns every committed row
read_all_stores ==
    /\ seen' = [op |-> "get_all_stores",
                primaries |-> PrimaryIds(store_connections)]
    /\ UNCHANGED <<sourceVars, sessions, hours, workers, registryVars, engineVars, txn, request, resp, io>>

----------------------------------------------------------------------------
(* Pending quotations and purchase orders (main.py:370-492) *)

\* rows the pending-quotation index holds
MaxQuotations == 2
\* rows the primary store's purchase-order table holds
MaxOrders == 2

\* the trailing windows of the two pending filters, in days
QuotationWindowDays == 60
PurchaseOrderWindowDays == 90

\* Python's `not v`: None, the empty string and zero are false
Falsy(v) == v = Null \/ v = Str("") \/ v = Text(<<>>) \/ v = Num(0)

\* int(text): Num(n) for an optional sign and decimal digits,
\* Raised("ValueError") for any other text
ParseInt(cs) ==
    LET neg == cs # <<>> /\ Head(cs) = "-"
        body == IF neg THEN Tail(cs) ELSE cs
    IN IF body # <<>> /\ \A k \in 1..Len(body) : IsDigit(body[k])
       THEN Num(IF neg THEN -DigitsValue(body, 0) ELSE DigitsValue(body, 0))
       ELSE Raised("ValueError")

\* int(v) of a column value: a number converts, a text is parsed, None
\* raises TypeError
ToInt(v) == IF v.t = "num" THEN v
          ELSE IF v.t = "text" THEN ParseInt(v.v)
          ELSE Raised("TypeError")

\* a row of QuotationsStatus; DateCreate is in days relative to GETDATE()
QuotationRow(number, source_db, dop1, dop2, dop3, status, created) ==
    [QuotationNumber |-> number, SourceDB |-> source_db, Dop1 |-> dop1,
     Dop2 |-> dop2, Dop3 |-> dop3, Status |-> status, DateCreate |-> created]

\* the rows the index may hold: two rows of registered stores, a row of an
\* unregistered store, rows without a source store or an integer quotation
\* id, rows the filter drops
IndexRows ==
    {QuotationRow("Q1", Str("A"), Text(<<"1">>), Str("x"), Str("y"), Null, 0),
     QuotationRow("Q2", Str("B"), Text(<<"2">>), Str("x"), Str("y"),
                  Str("OPEN"), -QuotationWindowDays),
     QuotationRow("Q3", Str("Z"), Text(<<"1">>), Str("x"), Str("y"), Null, -1),
     QuotationRow("Q4", Null, Text(<<"1">>), Str("x"), Str("y"), Null, -1),
     QuotationRow("Q5", Str("A"), Text(<<"1", "a">>), Str("x"), Str("y"),
                  Null, -1),
     QuotationRow("Q6", Str("A"), Null, Str("x"), Str("y"), Null, -1),
     QuotationRow("Q7", Str("A"), Text(<<"3">>), Str("x"), Str("y"), Null, -1),
     QuotationRow("Q8", Str("A"), Text(<<"1">>), Str("x"), Str("y"),
                  Str("CONVERTED"), -1),
     QuotationRow("Q9", Str("A"), Text(<<"1">>), Str("x"), Str("y"),
                  Str("DELETED"), -1),
     QuotationRow("Q10", Str("A"), Text(<<"1">>), Str("x"), Str("y"), Null,
                  -(QuotationWindowDays + 1)),
     QuotationRow("Q11", Str("A"), Text(<<"1">>), Str(""), Str("y"), Null, -1),
     QuotationRow("Q12", Str("A"), Text(<<"1">>), Str("x"), Null, Null, -1)}

\* a mutant of PendingQuotation: the filter without the status condition
PendingQuotationAnyStatus(row) ==
    /\ row.DateCreate >= -QuotationWindowDays
    /\ row.Dop2 # Null /\ row.Dop2 # Str("")
    /\ row.Dop3 # Null /\ row.Dop3 # Str("")

\* the WHERE clause of get_pending_quotations
PendingQuotation(row) ==
    /\ row.DateCreate >= -QuotationWindowDays
    /\ (row.Status = Null \/ row.Status.v \notin {"CONVERTED", "DELETED"})
    /\ row.Dop2 # Null /\ row.Dop2 # Str("")
    /\ row.Dop3 # Null /\ row.Dop3 # Str("")

RECURSIVE get_pending_quotations(_)
\* SELECT QuotationNumber, SourceDB, Dop1 FROM QuotationsStatus WHERE ...
get_pending_quotations(rows) ==
    IF rows = <<>> THEN <<>>
    ELSE LET row == Head(rows)
             rest == get_pending_quotations(Tail(rows))
         IN IF PendingQuotation(row)
            THEN <<[QuotationNumber |-> row.QuotationNumber,
                    SourceDB |-> row.SourceDB, Dop1 |-> row.Dop1]>> \o rest
            ELSE rest

\* the lines of QuotationsDetails_tbl in each store database
QuotationsDetails_tbl ==
    [db \in Databases |->
        IF db = "db1"
        THEN {[line |-> 1, QuotationID |-> 1, ProductUPC |-> "upc", Qty |-> 1],
              [line |-> 2, QuotationID |-> 1, ProductUPC |-> "upc", Qty |-> 2],
              [line |-> 3, QuotationID |-> 1, ProductUPC |-> "other", Qty |-> 9],
              [line |-> 4, QuotationID |-> 3, ProductUPC |-> "upc", Qty |-> 0]}
        ELSE {[line |-> 1, QuotationID |-> 2, ProductUPC |-> "upc", Qty |-> 5],
              [line |-> 2, QuotationID |-> 1, ProductUPC |-> "upc", Qty |-> 7]}]

RECURSIVE SumOf(_, _)
\* SUM(column) over a set of lines; NULL over no line
SumOf(lines, column) ==
    IF lines = {} THEN Null
    ELSE LET l == CHOOSE x \in lines : TRUE
             rest == SumOf(lines \ {l}, column)
         IN Num(l[column] + (IF rest = Null THEN 0 ELSE rest.v))

\* SELECT SUM(Qty) FROM QuotationsDetails_tbl WHERE QuotationID = ? AND
\* ProductUPC = ?
get_product_in_quotation(database, quotation_id, product_upc) ==
    SumOf({l \in QuotationsDetails_tbl[database] :
              l.QuotationID = quotation_id /\ l.ProductUPC = product_upc},
          "Qty")

\* a mutant of get_store_by_nickname: deactivated stores resolve too
get_store_by_nickname_inactive(rows, nickname) ==
    {i \in DOMAIN rows : rows[i].nickname = nickname}

\* SELECT * FROM store_connections WHERE nickname = %s AND is_active = TRUE,
\* fetchone: the ids of the rows the query may return (empty: None)
get_store_by_nickname(rows, nickname) ==
    {i \in DOMAIN rows : rows[i].nickname = nickname /\ rows[i].is_active}

\* the rows fetchone may hand back for each nickname: 0 stands for None
Picks(rows) ==
    {pick \in [Nicknames -> StoreIds \cup {0}] :
        \A n \in Nicknames :
            IF get_store_by_nickname(rows, n) = {} THEN pick[n] = 0
            ELSE pick[n] \in get_store_by_nickname(rows, n)}

\* a call a handler makes for the pending entry at position entry, and the
\* database the call connects to
EntryCall(name, entry, database, ok) ==
    [call |-> name, status |-> "", ok |-> ok, entry |-> entry,
     database |-> database]

RegistryDb == "postgres"

LookupError == "connection failed"

\* an itemized entry of the quotation aggregate
QuotationEntry(q, qty_ordered, store_configured, error) ==
    [source_db |-> q.SourceDB.v, quotation_number |-> q.QuotationNumber,
     qty_ordered |-> qty_ordered, store_configured |-> store_configured,
     error |-> error]

\* what one pass of the loop leaves behind
Pass(abort, entries, qty, calls) ==
    [abort |-> abort, entries |-> entries, qty |-> qty, calls |-> calls]

\* a mutant of quotation_lookup: a failed lookup ends the loop
quotation_lookup_aborts(q, k, quotation_id, store, upc, faults) ==
    IF k \in faults
    THEN Pass(TRUE, <<>>, 0,
              <<EntryCall("get_store_by_nickname", k, RegistryDb, TRUE),
                EntryCall("get_product_in_quotation", k, store.database, FALSE)>>)
    ELSE LET qty == get_product_in_quotation(store.database, quotation_id, upc)
         IN Pass(FALSE,
                 IF Falsy(qty) THEN <<>>
                 ELSE <<QuotationEntry(q, qty, TRUE, Null)>>,
                 IF Falsy(qty) THEN 0 ELSE qty.v,
                 <<EntryCall("get_store_by_nickname", k, RegistryDb, TRUE),
                   EntryCall("get_product_in_quotation", k, store.database, TRUE)>>)

\* main.py:412-437: the lookup in the resolved store, a failed lookup
\* (k in faults) listed with its error text
quotation_lookup(q, k, quotation_id, store, upc, faults) ==
    IF k \in faults
    THEN Pass(FALSE, <<QuotationEntry(q, Null, TRUE, Str(LookupError))>>, 0,
              <<EntryCall("get_store_by_nickname", k, RegistryDb, TRUE),
                EntryCall("get_product_in_quotation", k, store.database, FALSE)>>)
    ELSE LET qty == get_product_in_quotation(store.database, quotation_id, upc)
         IN Pass(FALSE,
                 IF Falsy(qty) THEN <<>>
                 ELSE <<QuotationEntry(q, qty, TRUE, Null)>>,
                 IF Falsy(qty) THEN 0 ELSE qty.v,
                 <<EntryCall("get_store_by_nickname", k, RegistryDb, TRUE),
                   EntryCall("get_product_in_quotation", k, store.database, TRUE)>>)

\* main.py:402-410: the nickname resolves to no active store
quotation_unresolved(q, k) ==
    Pass(FALSE, <<QuotationEntry(q, Null, FALSE, Str("Store not configured"))>>,
         0, <<EntryCall("get_store_by_nickname", k, RegistryDb, TRUE)>>)

\* main.py:389-437: the loop body for the pending row q at position k;
\* registry_fault = k: get_store_by_nickname raises
quotation_pass(q, k, rows, upc, pick, faults, registry_fault) ==
    IF Falsy(q.SourceDB) \/ Falsy(q.Dop1) THEN Pass(FALSE, <<>>, 0, <<>>)
    ELSE IF ToInt(q.Dop1).t = "raised" THEN Pass(FALSE, <<>>, 0, <<>>)
    ELSE IF registry_fault = k
    THEN Pass(TRUE, <<>>, 0, <<EntryCall("get_store_by_nickname", k, RegistryDb, FALSE)>>)
    ELSE LET store == IF q.SourceDB.v \in DOMAIN pick
                      THEN pick[q.SourceDB.v] ELSE 0
         IN IF store = 0 THEN quotation_unresolved(q, k)
            ELSE quotation_lookup(q, k, ToInt(q.Dop1).v, rows[store], upc, faults)

RECURSIVE quotation_loop(_, _, _, _, _, _, _)
\* main.py:388-437: the passes from position k on, in order
quotation_loop(pending, k, rows, upc, pick, faults, registry_fault) ==
    IF k > Len(pending) THEN Pass(FALSE, <<>>, 0, <<>>)
    ELSE LET first == quotation_pass(pending[k], k, rows, upc, pick, faults,
                                     registry_fault)
         IN IF first.abort THEN first
            ELSE LET rest == quotation_loop(pending, k + 1, rows, upc, pick,
                                            faults, registry_fault)
                 IN Pass(rest.abort, first.entries \o rest.entries,
                         first.qty + rest.qty, first.calls \o rest.calls)

\* GET /api/product/quotations (main.py:370-443): the response and the calls
product_quotations(upc, configured, index, rows, index_fault, pick, faults, registry_fault) ==
    IF upc = ""
    THEN [resp |-> [op |-> "product_quotations", code |-> 400,
                    error |-> "UPC is required"],
          io |-> <<>>]
    ELSE IF ~configured
    THEN [resp |-> [op |-> "product_quotations", code |-> 503,
                    error |-> "Admin database not configured"],
          io |-> <<Call("get_admin_db_config", TRUE)>>]
    ELSE IF index_fault
    THEN [resp |-> [op |-> "product_quotations", code |-> 500,
                    error |-> "Failed to get quotations"],
          io |-> <<Call("get_admin_db_config", TRUE),
                   Call("get_pending_quotations", FALSE)>>]
    ELSE LET done == quotation_loop(get_pending_quotations(index), 1, rows,
                                    upc, pick, faults, registry_fault)
             calls == <<Call("get_admin_db_config", TRUE),
                        Call("get_pending_quotations", TRUE)>> \o done.calls
         IN IF done.abort
            THEN [resp |-> [op |-> "product_quotations", code |-> 500,
                            error |-> "Failed to get quotations"],
                  io |-> calls]
            ELSE [resp |-> [op |-> "product_quotations", code |-> 200,
                            quotations |-> done.entries,
                            total_qty |-> done.qty],
                  io |-> calls]

api_product_quotations ==
    /\ \E upc \in {"", "upc"}, index_fault \in BOOLEAN,
          pick \in Picks(store_connections),
          faults \in SUBSET (1..Len(get_pending_quotations(QuotationsStatus))),
          registry_fault \in 0..Len(get_pending_quotations(QuotationsStatus)) :
         /\ (upc = "" \/ ~admin_db_config \/ index_fault)
                => (faults = {} /\ registry_fault = 0)
         /\ \E out \in {product_quotations(upc, admin_db_config, QuotationsStatus,
                                        store_connections, index_fault, pick,
                                        faults, registry_fault)} :
            /\ request' = [op |-> "product_quotations", upc |-> upc]
            /\ resp' = out.resp
            /\ io' = out.io
    /\ UNCHANGED <<sourceVars, sessions, hours, workers, registryVars, engineVars, txnVars>>

\* a row of PurchaseOrders_tbl; PoDate is in days relative to GETDATE()
PurchaseOrderRow(po_id, po_number, status, po_date) ==
    [PoID |-> po_id, PoNumber |-> po_number, Status |-> status,
     PoDate |-> po_date]

\* the purchase orders the primary store may hold
OrderRows ==
    {PurchaseOrderRow(Num(1), "PO1", 0, 0),
     PurchaseOrderRow(Num(2), "PO2", 0, -PurchaseOrderWindowDays),
     PurchaseOrderRow(Num(3), "PO3", 0, -1),
     PurchaseOrderRow(Num(4), "PO4", 1, -1),
     PurchaseOrderRow(Num(5), "PO5", 0, -(PurchaseOrderWindowDays + 1))}

\* the WHERE clause of get_pending_purchase_orders
PendingPurchaseOrder(row) ==
    /\ row.PoDate >= -PurchaseOrderWindowDays
    /\ row.Status = 0

RECURSIVE get_pending_purchase_orders(_)
\* SELECT PoID, PoNumber FROM PurchaseOrders_tbl WHERE ...
get_pending_purchase_orders(rows) ==
    IF rows = <<>> THEN <<>>
    ELSE LET row == Head(rows)
             rest == get_pending_purchase_orders(Tail(rows))
         IN IF PendingPurchaseOrder(row)
            THEN <<[PoID |-> row.PoID, PoNumber |-> row.PoNumber]>> \o rest
            ELSE rest

\* the lines of PurchaseOrdersDetails_tbl in the primary store database
PurchaseOrdersDetails_tbl ==
    {[line |-> 1, PoID |-> 1, ProductUPC |-> "upc", QtyOrdered |-> 4],
     [line |-> 2, PoID |-> 2, ProductUPC |-> "upc", QtyOrdered |-> 2],
     [line |-> 3, PoID |-> 2, ProductUPC |-> "upc", QtyOrdered |-> 6],
     [line |-> 4, PoID |-> 4, ProductUPC |-> "upc", QtyOrdered |-> 9]}

\* SELECT SUM(QtyOrdered) FROM PurchaseOrdersDetails_tbl WHERE PoID = ? AND
\* ProductUPC = ?
get_product_in_purchase_order(po_id, product_upc) ==
    SumOf({l \in PurchaseOrdersDetails_tbl :
              l.PoID = po_id /\ l.ProductUPC = product_upc},
          "QtyOrdered")

\* an itemized entry of the purchase-order aggregate
PurchaseOrderEntry(po, qty_ordered, error) ==
    [po_number |-> po.PoNumber, qty_ordered |-> qty_ordered, error |-> error]

\* a mutant of purchase_order_pass: a failed lookup is dropped from the list
purchase_order_pass_drops(po, k, database, upc, faults) ==
    IF Falsy(po.PoID) THEN Pass(FALSE, <<>>, 0, <<>>)
    ELSE IF k \in faults
    THEN Pass(FALSE, <<>>, 0,
              <<EntryCall("get_product_in_purchase_order", k, database, FALSE)>>)
    ELSE LET qty == get_product_in_purchase_order(po.PoID.v, upc)
         IN Pass(FALSE,
                 IF Falsy(qty) THEN <<>>
                 ELSE <<PurchaseOrderEntry(po, qty, Null)>>,
                 IF Falsy(qty) THEN 0 ELSE qty.v,
                 <<EntryCall("get_product_in_purchase_order", k, database, TRUE)>>)

\* main.py:463-482: the loop body for the pending order po at position k
purchase_order_pass(po, k, database, upc, faults) ==
    IF Falsy(po.PoID) THEN Pass(FALSE, <<>>, 0, <<>>)
    ELSE IF k \in faults
    THEN Pass(FALSE, <<PurchaseOrderEntry(po, Null, Str(LookupError))>>, 0,
              <<EntryCall("get_product_in_purchase_order", k, database, FALSE)>>)
    ELSE LET qty == get_product_in_purchase_order(po.PoID.v, upc)
         IN Pass(FALSE,
                 IF Falsy(qty) THEN <<>>
                 ELSE <<PurchaseOrderEntry(po, qty, Null)>>,
                 IF Falsy(qty) THEN 0 ELSE qty.v,
                 <<EntryCall("get_product_in_purchase_order", k, database, TRUE)>>)

RECURSIVE purchase_order_loop(_, _, _, _, _)
\* main.py:463-482: the passes from position k on, in order
purchase_order_loop(pending, k, database, upc, faults) ==
    IF k > Len(pending) THEN Pass(FALSE, <<>>, 0, <<>>)
    ELSE LET first == purchase_order_pass(pending[k], k, database, upc, faults)
             rest == purchase_order_loop(pending, k + 1, database, upc, faults)
         IN Pass(FALSE, first.entries \o rest.entries, first.qty + rest.qty,
                 first.calls \o rest.calls)

\* GET /api/product/purchase-orders (main.py:446-492): the response and the
\* calls; store is the result of get_primary_store
product_purchase_orders(upc, store, rows, orders, index_fault, faults) ==
    IF upc = ""
    THEN [resp |-> [op |-> "product_purchase_orders", code |-> 400,
                    error |-> "UPC is required"],
          io |-> <<>>]
    ELSE IF store = Null
    THEN [resp |-> [op |-> "product_purchase_orders", code |-> 503,
                    error |-> "Primary store not configured"],
          io |-> <<Call("get_primary_store", TRUE)>>]
    ELSE IF index_fault
    THEN [resp |-> [op |-> "product_purchase_orders", code |-> 500,
                    error |-> "Failed to get purchase orders"],
          io |-> <<Call("get_primary_store", TRUE),
                   Call("get_pending_purchase_orders", FALSE)>>]
    ELSE LET done == purchase_order_loop(get_pending_purchase_orders(orders),
                                         1, rows[store.v].database, upc,
                                         faults)
         IN [resp |-> [op |-> "product_purchase_orders", code |-> 200,
                       purchase_orders |-> done.entries,
                       total_qty |-> done.qty],
             io |-> <<Call("get_primary_store", TRUE),
                      Call("get_pending_purchase_orders", TRUE)>>
                    \o done.calls]

api_product_purchase_orders ==
    /\ \E upc \in {"", "upc"}, index_fault \in BOOLEAN,
          store \in PrimaryResult(store_connections),
          faults \in SUBSET (1..Len(get_pending_purchase_orders(PurchaseOrders_tbl))) :
         /\ (upc = "" \/ store = Null \/ index_fault) => faults = {}
         /\ \E out \in {product_purchase_orders(upc, store, store_connections,
                                             PurchaseOrders_tbl, index_fault,
                                             faults)} :
            /\ request' = [op |-> "product_purchase_orders", upc |-> upc]
            /\ resp' = out.resp
            /\ io' = out.io
    /\ UNCHANGED <<sourceVars, sessions, hours, workers, registryVars, engineVars, txnVars>>

----------------------------------------------------------------------------
(* Sessions (main.py:141-182, database.py:224-249) *)

\* the tokens secrets.token_hex may produce
Tokens == {"t1"}

\* database.py:226 the lifetime of a session, in hours
SessionHours == 24

\* PostgresManager.create_session: INSERT INTO sessions, with
\* expires_at = datetime.now() + timedelta(hours=24)
create_session(rows, session_token, username, issued) ==
    rows \cup {[session_token |-> session_token, username |-> username,
                expires_at |-> issued + SessionHours]}

\* PostgresManager.get_session: SELECT * FROM sessions WHERE session_token =
\* %s AND expires_at > CURRENT_TIMESTAMP; the rows fetchone may return
get_session(rows, session_token, at) ==
    {r \in rows : r.session_token = session_token /\ r.expires_at > at}

\* DELETE FROM sessions WHERE expires_at < CURRENT_TIMESTAMP: the rows left
delete_expired_rows(rows, at) == {r \in rows : ~(r.expires_at < at)}

\* the hours the model lets pass: the session's lifetime and two more
MaxHours == SessionHours + 2

\* an hour passes: datetime.now() and CURRENT_TIMESTAMP grow
tick ==
    /\ hours < MaxHours
    /\ hours' = hours + 1
    /\ UNCHANGED <<sourceVars, sessions, workers, registryVars, engineVars, txnVars>>
    /\ UNCHANGED <<request, resp, io>>

\* POST /api/auth/login: the user is found or not, create_session returns or
\* raises (fail)
api_login ==
    /\ \E username \in {"", Username}, found \in BOOLEAN, fail \in BOOLEAN :
         /\ request' = [op |-> "login", username |-> username]
         /\ IF username = ""
            THEN /\ resp' = [op |-> "login", code |-> 400]
                 /\ io' = <<>>
                 /\ UNCHANGED sessions
            ELSE IF ~admin_db_config
            THEN /\ resp' = [op |-> "login", code |-> 503]
                 /\ io' = <<Call("get_admin_db_config", TRUE)>>
                 /\ UNCHANGED sessions
            ELSE IF ~found
            THEN /\ resp' = [op |-> "login", code |-> 401]
                 /\ io' = <<Call("get_admin_db_config", TRUE),
                            Call("authenticate_user", TRUE)>>
                 /\ UNCHANGED sessions
            ELSE IF fail
            THEN /\ resp' = [op |-> "login", code |-> 500]
                 /\ io' = <<Call("get_admin_db_config", TRUE),
                            Call("authenticate_user", TRUE),
                            Call("create_session", FALSE)>>
                 /\ UNCHANGED sessions
            ELSE /\ resp' = [op |-> "login", code |-> 200]
                 /\ io' = <<Call("get_admin_db_config", TRUE),
                            Call("authenticate_user", TRUE),
                            Call("create_session", TRUE)>>
                 /\ \E token \in Tokens \ {r.session_token : r \in sessions} :
                       sessions' = create_session(sessions, token, username,
                                                  hours)
    /\ UNCHANGED <<sourceVars, hours, workers, registryVars, engineVars, txnVars>>

\* PostgresManager.delete_expired_sessions, a method no handler of main.py
\* calls
delete_expired_sessions ==
    /\ sessions' = delete_expired_rows(sessions, hours)
    /\ request' = [op |-> "delete_expired_sessions"]
    /\ resp' = [op |-> "delete_expired_sessions", code |-> 0]
    /\ io' = <<Call("delete_expired_sessions", TRUE)>>
    /\ UNCHANGED <<sourceVars, hours, workers, registryVars, engineVars, txnVars>>

----------------------------------------------------------------------------
(* Concurrent commits (main.py:236-351): each request is served by its     *)
(* own thread, every database call is a statement of its own on a          *)
(* connection of its own (database.py:423-447, 391-404, 174-192), and no   *)
(* transaction or lock spans two of them                                   *)

\* the counts the concurrent requests enter
WorkerQuantities == {StockQty - 1, StockQty + 1}

\* the only product of the model
TheProduct == CHOOSE p \in ProductIds : TRUE

\* the database a worker's store_db is bound to (main.py:92-98)
StoreDatabase(w) == store_connections[workers[w].store.v].database

\* main.py:263, 304: the nickname the worker logs
WorkerNickname(w) == LoggedNickname(store_connections, workers[w].primary_store)

\* main.py:329-351 after a statement raised: a mutant that goes on to the
\* success row
AfterStatementSwallows(ok, next) == next

\* where the handler goes after a statement: on, or to the except clause
AfterStatement(ok, next) == IF ok THEN next ELSE "except"

\* what the workers leave alone
workerFrame ==
    <<sourceVars, sessions, hours, registryVars, admin_db_config,
      app_settings, attempts, request, resp, io, txnVars>>

\* main.py:238-256: a valid request arrives
commit_begin(w) ==
    /\ workers[w].pc = "idle"
    /\ \E q \in WorkerQuantities :
         workers' = [workers EXCEPT ![w].pc = "get_primary_store_db",
                                    ![w].new_quantity = q]
    /\ UNCHANGED <<workerFrame, Items_tbl, ManualInventoryUpdate,
                   transaction_log, clock>>

\* main.py:261-262: store_db = get_primary_store_db(), which reads the
\* registry and binds the connection to the primary store's database
commit_get_primary_store_db(w) ==
    /\ workers[w].pc = "get_primary_store_db"
    /\ \E store \in PrimaryResult(store_connections) :
         workers' = [workers EXCEPT ![w].pc = "get_primary_store",
                                    ![w].store = store]
    /\ UNCHANGED <<workerFrame, Items_tbl, ManualInventoryUpdate,
                   transaction_log, clock>>

\* main.py:263-268: primary_store = pg_manager.get_primary_store(), a second
\* read of the registry, then the 503 of a missing store_db
commit_get_primary_store(w) ==
    /\ workers[w].pc = "get_primary_store"
    /\ \E primary_store \in PrimaryResult(store_connections) :
         workers' = [workers EXCEPT
                        ![w].pc = IF workers[w].store = Null
                                  THEN "done" ELSE "get_product_by_id",
                        ![w].code = IF workers[w].store = Null
                                    THEN 503 ELSE 0,
                        ![w].primary_store = primary_store]
    /\ UNCHANGED <<workerFrame, Items_tbl, ManualInventoryUpdate,
                   transaction_log, clock>>

\* main.py:272-278: the product is read, old_quantity and difference are
\* computed from it and the time is taken
commit_get_product_by_id(w) ==
    /\ workers[w].pc = "get_product_by_id"
    /\ clock' = clock + 1
    /\ workers' = [workers EXCEPT
                      ![w].pc = "update_product_quantity",
                      ![w].product = Items_tbl[StoreDatabase(w)][TheProduct],
                      ![w].current_time = clock + 1]
    /\ UNCHANGED <<workerFrame, Items_tbl, ManualInventoryUpdate,
                   transaction_log>>

\* main.py:281-285: UPDATE Items_tbl SET QuantOnHand = ?, returns or raises
commit_update_product_quantity(w) ==
    /\ workers[w].pc = "update_product_quantity"
    /\ \E ok \in BOOLEAN :
         /\ Items_tbl' =
               IF ok
               THEN update_product_quantity(Items_tbl, StoreDatabase(w),
                                            TheProduct,
                                            workers[w].new_quantity,
                                            workers[w].current_time)
               ELSE Items_tbl
         /\ workers' = [workers EXCEPT
                           ![w].pc = AfterStatement(ok, "record_inventory_update"),
                           ![w].before_write =
                               IF ok
                               THEN Items_tbl[StoreDatabase(w)][TheProduct].QuantOnHand
                               ELSE Null,
                           ![w].written =
                               IF ok THEN Num(workers[w].new_quantity)
                               ELSE Null]
    /\ UNCHANGED <<workerFrame, ManualInventoryUpdate, transaction_log, clock>>

\* main.py:288-298: INSERT INTO ManualInventoryUpdate, returns or raises
commit_record_inventory_update(w) ==
    /\ workers[w].pc = "record_inventory_update"
    /\ \E ok \in BOOLEAN :
         /\ ManualInventoryUpdate' =
               IF ok
               THEN Append(ManualInventoryUpdate,
                           AuditRow(workers[w].product,
                                    OldQuantity(workers[w].product),
                                    workers[w].new_quantity,
                                    Difference(workers[w].new_quantity,
                                               OldQuantity(workers[w].product)),
                                    workers[w].current_time))
               ELSE ManualInventoryUpdate
         /\ workers' = [workers EXCEPT
                           ![w].pc = AfterStatement(ok, "log_transaction")]
    /\ UNCHANGED <<workerFrame, Items_tbl, transaction_log, clock>>

\* main.py:301-328: the success row is inserted and 200 returned, or
\* log_transaction raises
commit_log_transaction(w) ==
    /\ workers[w].pc = "log_transaction"
    /\ \E ok \in BOOLEAN :
         /\ transaction_log' =
               IF ok
               THEN Append(transaction_log,
                           SuccessRow(WorkerNickname(w), TheProduct,
                                      workers[w].product,
                                      OldQuantity(workers[w].product),
                                      workers[w].new_quantity,
                                      Difference(workers[w].new_quantity,
                                                 OldQuantity(workers[w].product)),
                                      workers[w].new_quantity, 0, 0, 0,
                                      workers[w].current_time))
               ELSE transaction_log
         /\ workers' = [workers EXCEPT ![w].pc = AfterStatement(ok, "done"),
                                       ![w].code = IF ok THEN 200 ELSE 0]
    /\ UNCHANGED <<workerFrame, Items_tbl, ManualInventoryUpdate, clock>>

\* main.py:329-351: the except clause logs a failed row, swallows a second
\* failure and returns 500
commit_except(w) ==
    /\ workers[w].pc = "except"
    /\ \E ok \in BOOLEAN :
         transaction_log' =
            IF ok
            THEN Append(transaction_log,
                        FailedRow(WorkerNickname(w), TheProduct,
                                  workers[w].new_quantity, "error",
                                  workers[w].new_quantity, 0, 0, 0,
                                  workers[w].current_time))
            ELSE transaction_log
    /\ workers' = [workers EXCEPT ![w].pc = "done", ![w].code = 500]
    /\ UNCHANGED <<workerFrame, Items_tbl, ManualInventoryUpdate, clock>>

----------------------------------------------------------------------------
(* Initial states *)

\* a product row of Items_tbl
Product(product_id, quant_on_hand) ==
    [ProductUPC |-> "upc", QuantOnHand |-> quant_on_hand,
     LastCountDate |-> Null]

\* the on-hand quantities a store database may hold when the program starts
InitQuantOnHand == {Null, Num(StockQty)}

\* an empty registry, no admin configuration, the threshold provisioned by
\* init_settings_table (main.py:28), nothing logged
InitRegistry ==
    /\ store_connections = EmptyRows
    /\ store_id_seq = 0

InitSettings ==
    /\ admin_db_config = FALSE
    /\ app_settings = Text(<<"1", "0">>)

InitItems ==
    \E qoh \in InitQuantOnHand :
        Items_tbl = [db \in Databases |->
                        [p \in ProductIds |->
                            Product(p, IF db = "db1" THEN qoh ELSE Num(0))]]

InitLogs ==
    /\ ManualInventoryUpdate = <<>>
    /\ transaction_log = <<>>
    /\ clock = 0
    /\ attempts = 0

InitTxn ==
    /\ txn = [s \in Sessions |-> Idle]
    /\ seen = [op |-> "none", primaries |-> {}]

\* no pending quotation, no purchase order, nobody logged in
InitSources ==
    /\ QuotationsStatus = <<>>
    /\ PurchaseOrders_tbl = <<>>
    /\ sessions = {}
    /\ hours = 0
    /\ workers = [w \in Workers |-> IdleWorker]

\* registries the sequential registry calls reach: none, one active primary
\* store, one deactivated primary store
ConfiguredRegistries ==
    LET one == add_store_rows(EmptyRows, 1, "A", "db1", TRUE)
    IN {EmptyRows, one,
        update_store_rows(one, 1, Null, Null, Null, Num(FALSE))}

(* The registry under sequential calls *)
RegistryInit ==
    /\ InitRegistry /\ InitSettings /\ InitLogs /\ InitTxn /\ InitSources
    /\ Items_tbl = [db \in Databases |-> [p \in ProductIds |-> Product(p, Num(0))]]
    /\ request = NoRequest
    /\ resp = NoResp
    /\ io = <<>>

RegistryNext ==
    \/ api_add_store
    \/ api_update_store
    \/ api_delete_store
    \/ api_set_primary_store

SpecRegistry == RegistryInit /\ [][RegistryNext]_vars

(* The reconciliation engine over a configured registry *)
Init ==
    /\ store_connections \in ConfiguredRegistries
    /\ store_id_seq = Cardinality(DOMAIN store_connections)
    /\ InitSettings /\ InitItems /\ InitLogs /\ InitTxn /\ InitSources
    /\ request = NoRequest
    /\ resp = NoResp
    /\ io = <<>>

Next ==
    \/ api_update_quantity
    \/ api_save_admin_db_config

Spec == Init /\ [][Next]_vars

(* The threshold check: the inputs are drawn in the initial state.  The    *)
(* setting is the row init_settings_table provisions, or no row (the case  *)
(* main.py:749 provides for); the store and the logs are as the program    *)
(* starts, or as one successful commit of 4 + 1 leaves them.               *)
CommittedOnce(qoh) ==
    LET items0 == [db \in Databases |->
                      [p \in ProductIds |->
                          Product(p, IF db = "db1" THEN qoh ELSE Num(0))]]
        product == items0["db1"][1]
        old == OldQuantity(product)
    IN /\ Items_tbl = update_product_quantity(items0, "db1", 1, 5, 1)
       /\ ManualInventoryUpdate =
             <<AuditRow(product, old, 5, Difference(5, old), 1)>>
       /\ transaction_log =
             <<SuccessRow("A", 1, product, old, 5, Difference(5, old),
                          4, 1, 0, 0, 1)>>
       /\ clock = 1
       /\ attempts = 1

ThresholdInit ==
    /\ store_connections \in ConfiguredRegistries
    /\ store_id_seq = Cardinality(DOMAIN store_connections)
    /\ app_settings \in {Null, Text(<<"1", "0">>)}
    /\ \/ admin_db_config = FALSE /\ InitItems /\ InitLogs
       \/ /\ admin_db_config = TRUE
          /\ get_primary_store(store_connections) # {}
          /\ \E qoh \in InitQuantOnHand : CommittedOnce(qoh)
    /\ InitTxn /\ InitSources
    /\ request = NoRequest
    /\ resp = NoResp
    /\ io = <<>>

ThresholdNext ==
    \/ api_check_difference
    \/ api_save_quantity_threshold

SpecThreshold == ThresholdInit /\ [][ThresholdNext]_vars

(* The aggregations: the index, the purchase orders and the registry are  *)
(* drawn in the initial state                                              *)
DistinctSeqs(S, n) ==
    {s \in UNION {[1..m -> S] : m \in 0..n} :
        \A i, j \in DOMAIN s : i # j => s[i] # s[j]}

\* registries of two stores: both active, the second deactivated, both
\* registered under one nickname
AggregationRegistries ==
    LET one == add_store_rows(EmptyRows, 1, "A", "db1", TRUE)
        two == add_store_rows(one, 2, "B", "db2", FALSE)
    IN {two, update_store_rows(two, 2, Null, Null, Null, Num(FALSE)),
        add_store_rows(one, 2, "A", "db2", FALSE)}

AggregationInit ==
    /\ \/ /\ store_connections \in AggregationRegistries
          /\ admin_db_config = TRUE
          /\ QuotationsStatus \in DistinctSeqs(IndexRows, MaxQuotations)
          /\ PurchaseOrders_tbl = <<>>
       \/ /\ store_connections \in {EmptyRows} \cup AggregationRegistries
          /\ admin_db_config = FALSE
          /\ QuotationsStatus = <<>>
          /\ PurchaseOrders_tbl \in DistinctSeqs(OrderRows, MaxOrders)
    /\ store_id_seq = Cardinality(DOMAIN store_connections)
    /\ app_settings = Text(<<"1", "0">>)
    /\ Items_tbl = [db \in Databases |-> [p \in ProductIds |-> Product(p, Num(0))]]
    /\ InitLogs /\ InitTxn
    /\ sessions = {}
    /\ hours = 0
    /\ workers = [w \in Workers |-> IdleWorker]
    /\ request = NoRequest
    /\ resp = NoResp
    /\ io = <<>>

AggregationNext ==
    \/ api_product_quotations
    \/ api_product_purchase_orders

SpecAggregation == AggregationInit /\ [][AggregationNext]_vars

(* Validation: the commit and the check served for each kind of invalid    *)
(* request and for one valid request, over a configured registry           *)
ValidationCommits ==
    {CommitRequest(Num(1), Num(4), Null, Null, Null),
     CommitRequest(Null, Num(4), Null, Null, Null),
     CommitRequest(Num(1), Null, Num(1), Null, Null),
     CommitRequest(Null, Null, Null, Null, Null),
     CommitRequest(Num(1), NotANumber, Null, Null, Null),
     CommitRequest(Num(1), Num(4), NotANumber, Null, Null),
     CommitRequest(Num(1), Num(4), Null, NotANumber, Null),
     CommitRequest(Num(1), Num(4), Null, Null, NotANumber)}

ValidationChecks ==
    {CheckRequest(Num(1), Num(4), Null, Null),
     CheckRequest(Null, Num(4), Null, Null),
     CheckRequest(Num(1), Null, Num(1), Null),
     CheckRequest(Num(1), NotANumber, Null, Null),
     CheckRequest(Num(1), Num(4), NotANumber, Null),
     CheckRequest(Num(1), Num(4), Null, NotANumber)}

ValidationNext ==
    \/ serve_update_quantity(MaxCommits + 1, ValidationCommits, CommitFaults)
    \/ serve_check_difference(ValidationChecks, CheckFaults)
    \/ api_save_admin_db_config

SpecValidation == Init /\ [][ValidationNext]_vars

(* The whole program: every operation, each over a few inputs, from the   *)
(* state one successful commit and one login, whose session has expired   *)
(* since, leave                                                            *)
ProgramCommits == {CommitRequest(Num(1), Num(4), Null, Null, Null)}

ProgramFaults ==
    {[at |-> "none", again |-> FALSE], [at |-> "update", again |-> FALSE],
     [at |-> "record", again |-> TRUE]}

ProgramChecks == {CheckRequest(Num(1), Num(4), Null, Null)}

ProgramInit ==
    /\ store_connections = add_store_rows(EmptyRows, 1, "A", "db1", TRUE)
    /\ store_id_seq = 1
    /\ admin_db_config = TRUE
    /\ app_settings = Text(<<"1", "0">>)
    /\ CommittedOnce(Num(StockQty))
    /\ InitTxn
    /\ QuotationsStatus = <<>>
    /\ PurchaseOrders_tbl = <<>>
    /\ sessions = create_session({}, "t1", Username, 0)
    /\ hours = SessionHours + 1
    /\ workers = [w \in Workers |-> IdleWorker]
    /\ request = NoRequest
    /\ resp = NoResp
    /\ io = <<>>

ProgramNext ==
    \/ serve_update_quantity(MaxCommits + 1, ProgramCommits, ProgramFaults)
    \/ serve_check_difference(ProgramChecks, {"none"})
    \/ serve_save_quantity_threshold({Num(0)})
    \/ api_save_admin_db_config
    \/ serve_add_store({"A"}, {"db1"})
    \/ serve_update_store({<<Null, Null>>}, {Num(TRUE)}, {Null})
    \/ api_delete_store
    \/ api_set_primary_store
    \/ api_product_quotations
    \/ api_product_purchase_orders
    \/ api_login
    \/ delete_expired_sessions

SpecProgram == ProgramInit /\ [][ProgramNext]_vars

(* Two commits on the product of the primary store served at the same      *)
(* time, while the primary store may be changed: two stores A (db1,        *)
(* primary) and B (db2) hold the product                                   *)
ConcurrentInit ==
    /\ store_connections =
          add_store_rows(add_store_rows(EmptyRows, 1, "A", "db1", TRUE),
                         2, "B", "db2", FALSE)
    /\ store_id_seq = 2
    /\ admin_db_config = TRUE
    /\ app_settings = Text(<<"1", "0">>)
    /\ Items_tbl = [db \in Databases |->
                      [p \in ProductIds |->
                          Product(p, IF db = "db1" THEN Num(StockQty)
                                     ELSE Num(0))]]
    /\ InitLogs /\ InitTxn /\ InitSources
    /\ request = NoRequest
    /\ resp = NoResp
    /\ io = <<>>

ConcurrentNext ==
    \/ \E w \in Workers : commit_begin(w)
    \/ \E w \in Workers : commit_get_primary_store_db(w)
    \/ \E w \in Workers : commit_get_primary_store(w)
    \/ \E w \in Workers : commit_get_product_by_id(w)
    \/ \E w \in Workers : commit_update_product_quantity(w)
    \/ \E w \in Workers : commit_record_inventory_update(w)
    \/ \E w \in Workers : commit_log_transaction(w)
    \/ \E w \in Workers : commit_except(w)
    \/ api_set_primary_store

SpecConcurrent == ConcurrentInit /\ [][ConcurrentNext]_vars

(* The sessions of the running program: main.py calls create_session in    *)
(* api_login (main.py:170) and names neither get_session nor               *)
(* delete_expired_sessions; the program keeps serving requests and time    *)
(* passes                                                                  *)
SessionsInit ==
    /\ InitRegistry /\ InitSettings /\ InitItems /\ InitLogs /\ InitTxn
    /\ InitSources
    /\ request = NoRequest
    /\ resp = NoResp
    /\ io = <<>>

SessionsNext ==
    \/ api_save_admin_db_config
    \/ api_login
    \/ tick

SpecSessions == SessionsInit /\ [][SessionsNext]_vars /\ WF_vars(SessionsNext)

(* The same with a scheduler that runs delete_expired_sessions again and   *)
(* again, which the source does not have: the frame in which the method    *)
(* itself is examined                                                      *)
SweptNext ==
    \/ api_save_admin_db_config
    \/ api_login
    \/ tick
    \/ delete_expired_sessions

SpecSwept ==
    /\ SessionsInit
    /\ [][SweptNext]_vars
    /\ WF_vars(tick)
    /\ WF_vars(delete_expired_sessions)

(* The registry under concurrent transactions and readers *)
TxnInit ==
    /\ store_connections \in ConfiguredRegistries
    /\ store_id_seq = Cardinality(DOMAIN store_connections)
    /\ InitSettings /\ InitLogs /\ InitTxn /\ InitSources
    /\ Items_tbl = [db \in Databases |-> [p \in ProductIds |-> Product(p, Num(0))]]
    /\ request = NoRequest
    /\ resp = NoResp
    /\ io = <<>>

TxnNext ==
    \/ begin_add_store
    \/ begin_update_store
    \/ begin_set_primary_store
    \/ execute_update_start
    \/ execute_update_finish
    \/ execute_insert
    \/ commit
    \/ rollback
    \/ read_primary_store
    \/ read_all_stores

SpecTxn == TxnInit /\ [][TxnNext]_vars

----------------------------------------------------------------------------
(* Claims about the commit, api_update_quantity (specification Spec) *)

\* a request quantity as the claims read it: omitted or null counts as 0
ClaimQty(v) == IF v = Null THEN 0 ELSE v.v

\* the total the claims expect a request to commit
ClaimFinalQty(data) ==
    data.new_quantity.v + ClaimQty(data.quotations_qty)
        + ClaimQty(data.top_bins_qty)

\* the step is the serving of one commit request
CommitStep == request'.op = "update_quantity" /\ clock' = clock + 1

\* the ledger grew by exactly one row, the rows before it untouched
AppendedOne ==
    /\ Len(transaction_log') = Len(transaction_log) + 1
    /\ SubSeq(transaction_log', 1, Len(transaction_log)) = transaction_log

LastLogged == transaction_log[Len(transaction_log)]

\* the request with another purchase-order quantity
WithPO(data, po) == [data EXCEPT !.purchase_orders_qty = po]

\* what a request writes to the store, the faults and registry reads given
ItemsWritten(data, fault, store, primary_store) ==
    update_quantity(data.product_id, data.new_quantity, data.quotations_qty,
                    data.purchase_orders_qty, data.top_bins_qty, fault,
                    store, primary_store, clock + 1).items

\* C1, first part: every inventory row a commit writes gets the quantity
\* user_entered_qty + quotations_qty + top_bins_qty of its request
C1_WritesSum ==
    [][CommitStep =>
        \A db \in Databases, p \in ProductIds :
            Items_tbl'[db][p] # Items_tbl[db][p] =>
                Items_tbl'[db][p].QuantOnHand = Num(ClaimFinalQty(request'))
      ]_vars

\* C1, second part: in every reachable state in which a commit can be
\* served, a request and the same request with a purchase_orders_qty added
\* leave the same inventory table, whatever the faults and registry reads
C1_IgnoresPO ==
    clock < MaxCommits =>
        \A data \in {d \in CommitRequests : d.purchase_orders_qty = Null},
           po \in {Num(0), Num(8)},
           fault \in CommitFaults, store \in PrimaryResult(store_connections) :
            ItemsWritten(WithPO(data, po), fault, store, store)
                = ItemsWritten(data, fault, store, store)

\* C1: the quantity a valid commit request writes to the store's inventory
\* row is exactly user_entered_qty + quotations_qty + top_bins_qty (omitted
\* or null quantities counting as 0), and requests that differ only in
\* purchase_orders_qty write the same quantity
C1_FinalQty == C1_WritesSum /\ []C1_IgnoresPO

\* C1 witness: a commit of 4 + 1 + (omitted) with purchase orders 8 wrote 5
C1_Witness ==
    /\ request = CommitRequest(Num(1), Num(4), Num(1), Num(8), Null)
    /\ resp.op = "update_quantity" /\ resp.code = 200
    /\ Items_tbl["db1"][1].QuantOnHand = Num(5)

\* C2: a commit that returns success appended exactly one ledger row, with
\* status 'success'; the store's quantity for the product is final_qty; the
\* row's difference is final_qty minus the on-hand quantity the store held
\* before the commit, a null quantity read as 0
C2_SuccessfulCommit ==
    [][(CommitStep /\ resp'.code = 200) =>
        /\ get_primary_store(store_connections) # {}
        /\ \A s \in get_primary_store(store_connections) :
            LET db == store_connections[s].database
                p == request'.product_id.v
                before == Items_tbl[db][p].QuantOnHand
                old == IF before = Null THEN 0 ELSE before.v
                final == ClaimFinalQty(request')
                row == transaction_log'[Len(transaction_log')]
            IN /\ AppendedOne
               /\ row.status = "success"
               /\ row.new_quantity = final
               /\ row.old_quantity = Num(old)
               /\ row.difference = Num(final - old)
               /\ Items_tbl'[db][p].QuantOnHand = Num(final)
      ]_vars

\* C2 witness: a successful commit over a stocked product logged a
\* difference that is not zero
C2_Witness ==
    /\ resp.op = "update_quantity" /\ resp.code = 200
    /\ transaction_log # <<>>
    /\ LastLogged.status = "success"
    /\ LastLogged.old_quantity = Num(StockQty)
    /\ LastLogged.difference = Num(5 - StockQty)

\* the commit wrote the store and wrote no audit row: the audit write raised
StoreWrittenAuditMissing ==
    /\ CommitStep
    /\ Items_tbl' # Items_tbl
    /\ ManualInventoryUpdate' = ManualInventoryUpdate

\* the row C3 describes
IsFailedRowOf(row, data) ==
    /\ row.status = "failed"
    /\ row.new_quantity = ClaimFinalQty(data)
    /\ row.old_quantity = Null
    /\ row.difference = Null
    /\ row.error_message # Null

C4_RowsOfStep ==
    /\ resp'.code = 200 =>
          AppendedOne /\ transaction_log'[Len(transaction_log')].status = "success"
    /\ resp'.code \in {400, 404, 503} => transaction_log' = transaction_log
    /\ (resp'.code = 500 /\ resp'.error = "Internal Server Error") =>
          transaction_log' = transaction_log
    /\ (resp'.code = 500 /\ resp'.error # "Internal Server Error") =>
          \/ transaction_log' = transaction_log
          \/ AppendedOne
             /\ transaction_log'[Len(transaction_log')].status = "failed"

RejectedByStep1(data) ==
    \/ get_primary_store(store_connections) = {}
    \/ ~admin_db_config
    \/ /\ data.product_id # Null
       /\ \A s \in get_primary_store(store_connections) :
            data.product_id.v
                \notin DOMAIN Items_tbl[store_connections[s].database]

\* the calls of a trace, by name
CallsNamed(calls, name) == {i \in 1..Len(calls) : calls[i].call = name}

\* C15: a commit rejected at or before step 1 (primary store not configured
\* or deactivated, admin database not configured, product id absent from
\* the primary store) writes neither the store's inventory table nor the
\* admin audit table, and calls neither write
C15_RejectedWritesNothing ==
    [][(CommitStep /\ RejectedByStep1(request')) =>
        /\ Items_tbl' = Items_tbl
        /\ ManualInventoryUpdate' = ManualInventoryUpdate
        /\ CallsNamed(io', "update_product_quantity") = {}
        /\ CallsNamed(io', "record_inventory_update") = {}
      ]_vars

\* C15 witness: a valid commit was answered 'Primary store not configured'
\* while the registry holds a deactivated primary store; nothing is written
C15_Witness ==
    /\ resp.op = "update_quantity" /\ resp.code = 503
    /\ \E s \in DOMAIN store_connections :
         store_connections[s].is_primary /\ ~store_connections[s].is_active
    /\ ManualInventoryUpdate = <<>>
    /\ \A db \in Databases, p \in ProductIds :
         Items_tbl[db][p].LastCountDate = Null

\* the three writes of a commit, in the order the claim gives them
StoreWrite == "update_product_quantity"
AuditWrite == "record_inventory_update"
SuccessLogs(calls) ==
    {i \in 1..Len(calls) :
        calls[i].call = "log_transaction" /\ calls[i].status = "success"}

\* C17: in every commit the admin audit write is attempted only after the
\* store update has returned, and the success ledger write only after the
\* audit write has returned; when the store update raises no audit row is
\* written; each of the three writes is attempted at most once
C17_StrictlySequential ==
    [][CommitStep =>
        /\ \A i \in CallsNamed(io', AuditWrite) :
              \E j \in 1..(i - 1) : io'[j] = Call(StoreWrite, TRUE)
        /\ \A i \in SuccessLogs(io') :
              \E j \in 1..(i - 1) : io'[j] = Call(AuditWrite, TRUE)
        /\ (\E i \in 1..Len(io') : io'[i] = Call(StoreWrite, FALSE)) =>
              /\ ManualInventoryUpdate' = ManualInventoryUpdate
              /\ CallsNamed(io', AuditWrite) = {}
        /\ Cardinality(CallsNamed(io', StoreWrite)) <= 1
        /\ Cardinality(CallsNamed(io', AuditWrite)) <= 1
        /\ Cardinality(SuccessLogs(io')) <= 1
      ]_vars

\* C17 witness: a commit made the three writes, each once, in order
C17_Witness ==
    /\ resp.op = "update_quantity" /\ resp.code = 200
    /\ Len(io) = 7
    /\ io[5] = Call(StoreWrite, TRUE)
    /\ io[6] = Call(AuditWrite, TRUE)
    /\ io[7] = LogCall("success", TRUE)

\* the store write returned and the audit write or the success ledger
\* write raised
LaterStepFailed(calls) ==
    /\ \E i \in 1..Len(calls) : calls[i] = Call(StoreWrite, TRUE)
    /\ \E i \in 1..Len(calls) :
         calls[i] \in {Call(AuditWrite, FALSE), LogCall("success", FALSE)}

\* C18: when a commit's store write has succeeded and the audit write or
\* the ledger write fails, the store's quantity stays at final_qty and the
\* caller receives a failure response, not a success
C18_NoRollbackNoPartialSuccess ==
    [][(CommitStep /\ LaterStepFailed(io')) =>
        /\ \A s \in get_primary_store(store_connections) :
              Items_tbl'[store_connections[s].database]
                        [request'.product_id.v].QuantOnHand
                 = Num(ClaimFinalQty(request'))
        /\ get_primary_store(store_connections) # {}
        /\ resp'.code = 500
        /\ "error" \in DOMAIN resp'
        /\ "difference" \notin DOMAIN resp'
      ]_vars

\* C18 witness: the ledger write of a commit raised after the store and the
\* audit table were written; the store holds 5, not the 12 it held, and
\* the caller got a failure
C18_Witness ==
    /\ resp.op = "update_quantity" /\ resp.code = 500 /\ resp.error = "log"
    /\ Len(ManualInventoryUpdate) = 1
    /\ ManualInventoryUpdate[1].OldQty = StockQty
    /\ Items_tbl["db1"][1].QuantOnHand = Num(5)

\* the error a raising call reports
ClaimErrorOf(c) ==
    IF c.call = "get_product_by_id" THEN "get_product"
    ELSE IF c.call = "update_product_quantity" THEN "update"
    ELSE IF c.call = "record_inventory_update" THEN "record"
    ELSE "log"

\* the write of the 'failed' ledger row raised
DoubleFault(calls) ==
    \E i \in 1..Len(calls) : calls[i] = LogCall("failed", FALSE)

\* C19: when a commit step fails and the write of the 'failed' ledger row
\* fails as well, the commit returns one failure response carrying the
\* message of the original error, the ledger is as it was, and the failed
\* log write is the last call made
C19_DoubleFaultSwallowed ==
    [][(CommitStep /\ DoubleFault(io')) =>
        /\ io'[Len(io')] = LogCall("failed", FALSE)
        /\ ~io'[Len(io') - 1].ok
        /\ \A i \in 1..(Len(io') - 2) : io'[i].ok
        /\ resp'.code = 500
        /\ resp'.error = ClaimErrorOf(io'[Len(io') - 1])
        /\ transaction_log' = transaction_log
      ]_vars

\* C19 witness: the audit write raised, the failure log raised too, and the
\* caller got the audit write's error
C19_Witness ==
    /\ resp.op = "update_quantity" /\ resp.code = 500
    /\ resp.error = "record"
    /\ io[Len(io)] = LogCall("failed", FALSE)
    /\ transaction_log = <<>>
    /\ Items_tbl["db1"][1].QuantOnHand = Num(5)

----------------------------------------------------------------------------
(* Claims about the store registry under sequential calls                  *)
(* (specification SpecRegistry)                                            *)

\* the step is a committed set_primary_store(X) for a store X that exists
SetPrimaryOfExisting ==
    /\ request'.op = "set_primary_store"
    /\ request'.store_id \in DOMAIN store_connections

\* C5 as stated: after set_primary_store(X) for an existing store X exactly
\* one active store has is_primary = true, and it is X
C5_ExactlyOneActivePrimary ==
    [][SetPrimaryOfExisting =>
        get_primary_store(store_connections') = {request'.store_id}
      ]_vars

\* C5 amended: after set_primary_store(X) for an existing store X exactly
\* one store row has is_primary = true, and it is X; X is the one active
\* primary store when X is active, and no active store is primary when X is
\* deactivated; a second set_primary_store(X) leaves the is_primary flags
\* of all rows as they are after the first
C5_ExactlyOnePrimary ==
    [][SetPrimaryOfExisting =>
        LET X == request'.store_id
            after == store_connections'
            again == set_primary_store_rows(after, X)
        IN /\ PrimaryIds(after) = {X}
           /\ get_primary_store(after) = IF after[X].is_active THEN {X} ELSE {}
           /\ DOMAIN again = DOMAIN after
           /\ \A i \in DOMAIN after : again[i].is_primary = after[i].is_primary
      ]_vars

\* C5 witness: store 2 was made primary beside store 1, which is not primary
C5_Witness ==
    /\ request.op = "set_primary_store" /\ request.store_id = 2
    /\ DOMAIN store_connections = {1, 2}
    /\ store_connections[2].is_primary /\ store_connections[2].is_active
    /\ ~store_connections[1].is_primary

\* a row that is primary after the step and was not before it
BecomesPrimary(s) ==
    /\ s \in DOMAIN store_connections'
    /\ store_connections'[s].is_primary
    /\ s \notin DOMAIN store_connections \/ ~store_connections[s].is_primary

\* C6: in every state that add_store, update_store, set_primary_store and
\* delete_store reach, at most one store row has is_primary = true, and
\* whenever a call makes a store primary the row that was primary before
\* has is_primary = false afterwards
C6_AtMostOnePrimary ==
    /\ [](Cardinality(PrimaryIds(store_connections)) <= 1)
    /\ [][\A s \in DOMAIN store_connections' :
            BecomesPrimary(s) =>
                \A p \in PrimaryIds(store_connections) :
                    p \in DOMAIN store_connections' =>
                        ~store_connections'[p].is_primary
         ]_vars

\* C6 witness: a store was added as primary beside an older store, which is
\* not primary
C6_Witness ==
    /\ request.op = "add_store"
    /\ DOMAIN store_connections = {1, 2}
    /\ store_connections[2].is_primary
    /\ ~store_connections[1].is_primary

\* C8: set_primary_store or update_store with a store id that matches no
\* row leaves the registry unchanged; the store that was primary before the
\* call is still primary after it
C8_UnknownIdLeavesRegistry ==
    [][(/\ request'.op \in {"set_primary_store", "update_store"}
        /\ request'.store_id \notin DOMAIN store_connections) =>
            store_connections' = store_connections
      ]_vars

----------------------------------------------------------------------------
(* Claims about the threshold check (specification SpecThreshold) *)

\* C9: the threshold pre-flight check changes nothing: whatever its inputs
\* and outcome, the store inventory rows (quantity and last count date),
\* the admin audit table, the transaction ledger and the threshold setting
\* are after the call what they were before it
C9_CheckChangesNothing ==
    [][request'.op = "check_difference" =>
        /\ Items_tbl' = Items_tbl
        /\ ManualInventoryUpdate' = ManualInventoryUpdate
        /\ transaction_log' = transaction_log
        /\ app_settings' = app_settings
      ]_vars

\* C9 witness: a check was answered over a store, an audit table and a
\* ledger that a commit has written
C9_Witness ==
    /\ request.op = "check_difference" /\ resp.code = 200
    /\ Len(transaction_log) = 1 /\ Len(ManualInventoryUpdate) = 1
    /\ Items_tbl["db1"][1].LastCountDate = Num(1)

\* the threshold the claim reads from the stored setting: 10 when there is
\* no row, else the number whose text is stored
ClaimThreshold ==
    IF app_settings = Null THEN 10
    ELSE CHOOSE n \in 0..(MaxThreshold + 10) :
            app_settings.v \in {NatStr(n), FloatStr(n)}

\* the on-hand quantity of the requested product in the primary store
ClaimOnHand ==
    LET s == CHOOSE i \in get_primary_store(store_connections) : TRUE
        qoh == Items_tbl[store_connections[s].database][request.product_id.v]
                  .QuantOnHand
    IN IF qoh = Null THEN 0 ELSE qoh.v

\* C10: for every valid input of the threshold check, exceeds_threshold is
\* true exactly when |user_entered_qty + quotations_qty + top_bins_qty -
\* quantity on hand| is strictly greater than the threshold, the threshold
\* being the stored quantity_threshold setting, or 10 when no setting
\* exists
C10_ExceedsThreshold ==
    (request.op = "check_difference" /\ resp.code = 200) =>
        LET d == ClaimFinalQty(request) - ClaimOnHand
        IN resp.exceeds_threshold
              = ((IF d < 0 THEN -d ELSE d) > ClaimThreshold)

\* C10 witness: a difference equal to the stored threshold does not exceed
C10_Witness ==
    /\ request.op = "check_difference" /\ resp.code = 200
    /\ app_settings = Text(<<"1", "0">>)
    /\ resp.difference = -10
    /\ ~resp.exceeds_threshold

----------------------------------------------------------------------------
(* Claims about concurrent registry transactions (specification SpecTxn) *)

\* C7: in every interleaving of concurrent primary-changing transactions
\* with concurrent readers, no committed state holds more than one primary
\* store and no reader sees more than one
C7_NeverTwoPrimaries ==
    /\ Cardinality(PrimaryIds(store_connections)) <= 1
    /\ Cardinality(seen.primaries) <= 1

----------------------------------------------------------------------------
(* Claims about the aggregations, checked under SpecAggregation *)

\* the rows get_pending_quotations handed to the handler
PendingRows == get_pending_quotations(QuotationsStatus)

\* the last request was a quotation aggregation that produced its aggregate
QuotationsServed == resp.op = "product_quotations" /\ resp.code = 200

\* the calls of the last handler made for the pending entry at position k
CallsFor(k) ==
    {c \in 1..Len(io) : "entry" \in DOMAIN io[c] /\ io[c].entry = k}

\* the itemized quotation entries with the given quotation number
ListedAs(number) ==
    {e \in 1..Len(resp.quotations) :
        resp.quotations[e].quotation_number = number}

\* a pending row carries a source store nickname and an integer foreign id
CarriesLinkage(q) ==
    /\ q.SourceDB # Null /\ q.SourceDB # Str("")
    /\ q.Dop1 # Null /\ q.Dop1 # Text(<<>>)
    /\ \A c \in 1..Len(q.Dop1.v) :
          q.Dop1.v[c] \in {"0", "1", "2", "3", "4", "5", "6", "7", "8", "9"}

Unresolved(k) ==
    /\ CarriesLinkage(PendingRows[k])
    /\ \A i \in DOMAIN store_connections :
          \/ store_connections[i].nickname # PendingRows[k].SourceDB.v
          \/ ~store_connections[i].is_active

RECURSIVE ListedQty(_)
\* the sum of the non-null quantities of a list of entries
ListedQty(entries) ==
    IF entries = <<>> THEN 0
    ELSE (IF Head(entries).qty_ordered = Null THEN 0
          ELSE Head(entries).qty_ordered.v) + ListedQty(Tail(entries))

PendingOrders == get_pending_purchase_orders(PurchaseOrders_tbl)

\* the last request was a purchase-order aggregation that produced its
\* aggregate
OrdersServed == resp.op = "product_purchase_orders" /\ resp.code = 200

\* the itemized purchase-order entries with the given order number
OrderListedAs(number) ==
    {e \in 1..Len(resp.purchase_orders) :
        resp.purchase_orders[e].po_number = number}

\* the pending positions whose lookup (the call of the given name) raised;
\* a position with a call is at most the number of calls
FailedLookups(name) ==
    {k \in 1..Len(io) :
        \E c \in CallsFor(k) : io[c].call = name /\ ~io[c].ok}

\* the quantity the returned lookup io[c] retrieved (null: none)
Retrieved(c) ==
    IF io[c].call = "get_product_in_quotation"
    THEN get_product_in_quotation(
             io[c].database, ToInt(PendingRows[io[c].entry].Dop1).v,
             request.upc)
    ELSE get_product_in_purchase_order(PendingOrders[io[c].entry].PoID.v,
                                       request.upc)

RECURSIVE RetrievedTotal(_)
\* the sum of the non-null quantities the lookups in a set of calls retrieved
RetrievedTotal(calls) ==
    IF calls = {} THEN 0
    ELSE LET c == CHOOSE x \in calls : TRUE
         IN (IF Retrieved(c) = Null THEN 0 ELSE Retrieved(c).v)
            + RetrievedTotal(calls \ {c})

\* the returned lookups of the last handler
ReturnedLookups ==
    {c \in 1..Len(io) :
        /\ io[c].call \in {"get_product_in_quotation",
                           "get_product_in_purchase_order"}
        /\ io[c].ok}

\* the orders in which n pending rows can come back
Orders(n) == {p \in [1..n -> 1..n] : \A i, j \in 1..n : i # j => p[i] # p[j]}

----------------------------------------------------------------------------
(* Claims about validation, checked under SpecValidation *)

\* a commit or check request without a product id, without a user-entered
\* quantity, or with a quantity that is no number
ClaimInvalid(data) ==
    /\ data.op \in {"update_quantity", "check_difference"}
    /\ \/ data.product_id = Null
       \/ data.new_quantity = Null
       \/ data.new_quantity = NotANumber
       \/ data.quotations_qty = NotANumber
       \/ data.top_bins_qty = NotANumber
       \/ data.op = "update_quantity" /\ data.purchase_orders_qty = NotANumber

----------------------------------------------------------------------------
(* Claims about the whole program, checked under SpecProgram *)

\* C20: the ledger is append-only: every step of every operation (commit,
\* check, aggregation, registry and settings change, store deletion, login,
\* session sweep) keeps every ledger row in its place and unchanged, so a
\* later ledger extends every earlier one.
C20_LedgerAppendOnly ==
    [][/\ Len(transaction_log') >= Len(transaction_log)
       /\ \A k \in 1..Len(transaction_log) :
             transaction_log'[k] = transaction_log[k]]_vars

\* the store the ledger rows name was deleted after a second row was
\* appended, and both rows are still there
C20_Witness ==
    /\ request.op = "delete_store"
    /\ store_connections = EmptyRows
    /\ Len(transaction_log) = 2
    /\ transaction_log[1].store_nickname = "A"

----------------------------------------------------------------------------
(* Claims about sessions, checked under SpecSessions and SpecSwept *)

\* the session of token t is stored and its expiry has passed
Expired(t) == \E r \in sessions : r.session_token = t /\ r.expires_at < hours

\* C21: a stored session whose expiry has passed is in fact purged in the
\* running program: it leads to a state in which it is stored no more.
C21_ExpiredSessionsPurged == \A t \in Tokens : Expired(t) ~> ~Expired(t)

\* C21, the parts about the methods themselves: a session is created with
\* expiry 24 hours after the time of its creation; get_session returns a
\* stored session exactly while the time is before its expiry, whatever the
\* sweep has done; the sweep removes only rows whose expiry has passed,
\* never one that get_session would return.
C21_ExpiryAndSweepAreSafe ==
    [][/\ \A r \in sessions' \ sessions : r.expires_at = hours + SessionHours
       /\ \A r \in sessions :
             /\ r \in get_session(sessions, r.session_token, hours)
                  <=> hours < r.expires_at
             /\ r \notin sessions' =>
                  /\ r.expires_at < hours
                  /\ get_session(sessions, r.session_token, hours) = {}]_vars

\* the sweep has just removed an expired session
C21_SweepRemovedExpired ==
    /\ request.op = "delete_expired_sessions"
    /\ sessions = {}
    /\ hours > SessionHours

----------------------------------------------------------------------------
(* Claims about concurrent commits, checked under SpecConcurrent *)

\* the workers whose commit took the time a row carries
CommitOf(created_at) == {w \in Workers : workers[w].current_time = created_at}

\* C22: in every interleaving of the commits, the old quantity of each
\* success ledger row and of each audit row is the quantity the store held
\* immediately before the UPDATE of the commit that wrote the row, and the
\* recorded difference is the change that UPDATE made.
C22_OldQuantityIsQuantityBeforeWrite ==
    /\ \A k \in 1..Len(transaction_log) :
          transaction_log[k].status = "success" =>
             \A w \in CommitOf(transaction_log[k].created_at) :
                /\ transaction_log[k].old_quantity =
                      OrZero(workers[w].before_write)
                /\ transaction_log[k].difference.v =
                      workers[w].written.v - OrZero(workers[w].before_write).v
    /\ \A k \in 1..Len(ManualInventoryUpdate) :
          \A w \in CommitOf(ManualInventoryUpdate[k].DateCreated) :
             /\ ManualInventoryUpdate[k].OldQty =
                   OrZero(workers[w].before_write).v
             /\ ManualInventoryUpdate[k].DiffQty =
                   workers[w].written.v - OrZero(workers[w].before_write).v

\* C23: the nickname of every ledger row is the nickname of the store whose
\* inventory row the commit read and wrote, also when the primary store is
\* changed while the commit runs.
C23_NicknameIsStoreWritten ==
    \A k \in 1..Len(transaction_log) :
       \A w \in CommitOf(transaction_log[k].created_at) :
          transaction_log[k].store_nickname =
             store_connections[workers[w].store.v].nickname

\* C24: every success row of the ledger has an audit row of the same commit
\* with the same old quantity, new quantity and difference, and that commit's
\* UPDATE set the product's quantity to the row's new quantity.
C24_SuccessRowHasWriteAndAudit ==
    \A k \in 1..Len(transaction_log) :
       transaction_log[k].status = "success" =>
          /\ \E w \in CommitOf(transaction_log[k].created_at) :
                workers[w].written = Num(transaction_log[k].new_quantity)
          /\ \E j \in 1..Len(ManualInventoryUpdate) :
                /\ ManualInventoryUpdate[j].DateCreated =
                      transaction_log[k].created_at
                /\ ManualInventoryUpdate[j].OldQty =
                      transaction_log[k].old_quantity.v
                /\ ManualInventoryUpdate[j].NewQty =
                      transaction_log[k].new_quantity
                /\ ManualInventoryUpdate[j].DiffQty =
                      transaction_log[k].difference.v

\* one commit logged its success row while the other wrote the store, failed
\* before its audit row and logged a failed row
C24_Witness ==
    /\ Len(transaction_log) = 2
    /\ Len(ManualInventoryUpdate) = 1
    /\ \E k \in 1..2 : transaction_log[k].status = "success"
    /\ \E k \in 1..2 : transaction_log[k].status = "failed"
    /\ \A w \in Workers : workers[w].pc = "done" /\ workers[w].written # Null

=============================================================================
